---- MODULE Spec2Model ----
(***************************************************************************)
(* A model of the unity-js decode pipeline:                                *)
(*   - AssetBundle.load / read / readHeader / readBlocksInfoAndDirectory / *)
(*     readBlocksInfo / readBlocks / readFiles, decompressBuffer and       *)
(*     getFileType of src/src/bundle.ts                                    *)
(*   - the Asset constructor and Asset.objects of src/src/asset.ts         *)
(*   - createAssetObject of src/src/classes/index.ts                       *)
(*   - AssetBase.typeTree of src/src/classes/base.ts                       *)
(* Buffers are sequences of bytes (0..255); a reader offset is 0-based as  *)
(* in the code, so byte k of a buffer b is b[k + 1].                       *)
(***************************************************************************)
EXTENDS Integers, Sequences, FiniteSets, TLC

VARIABLES
    ftData,      \* getFileType: the buffer handed to getFileType
    ftResult,    \* getFileType: "pending", a FileType, or "throw"
    ttFile,      \* typeTree: the serialized file, [buf, le, template (reader position)]
    ttObjs,      \* typeTree: the decoded objects, each [bytesStart, tree, reader (position)]
    ttInitial,   \* typeTree: ttFile and ttObjs as they were after construction
    ttCalls,     \* typeTree: per object, the number of typeTree() calls made
    ttFirst,     \* typeTree: per object, what its first call returned
    ttLast,      \* typeTree: per object, what its latest call returned
    abPc,          \* load: the await the load is suspended at, or "start", "done", "failed"
    abOutstanding, \* load: the number of reads issued to the source and not yet completed
    abReads,       \* load: the reads issued to the source so far, each [what, n]
    abHeader,      \* load: the BundleHeader fields
    abBlockInfos,  \* load: this.blockInfos
    abNodes,       \* load: this.nodes
    abResults,     \* load: the decompressed blocks pushed so far
    abDecompressed,\* load: the decompressBuffer calls made, each [type, size, threw, unchanged]
    abData,        \* load: the buffer handed to readFiles
    abFiles,       \* load: the virtual files readFiles returned
    abAssetObjects,\* load: this.assetObjects
    abError,       \* load: why the load was rejected, or "none"
    abListed,      \* load: whether objects() was called, and what the latest call returned
    asFile,        \* new Asset: the serialized file and what was written into it
    asAsset        \* new Asset: [made, asset], the Asset the constructor built once made

ftVars == <<ftData, ftResult>>
ttVars == <<ttFile, ttObjs, ttInitial, ttCalls, ttFirst, ttLast>>
abVars == <<abPc, abOutstanding, abReads, abHeader, abBlockInfos, abNodes, abResults,
            abDecompressed, abData, abFiles, abAssetObjects, abError, abListed>>
asVars == <<asFile, asAsset>>
vars == <<ftData, ftResult, ttFile, ttObjs, ttInitial, ttCalls, ttFirst, ttLast,
          abPc, abOutstanding, abReads, abHeader, abBlockInfos, abNodes, abResults,
          abDecompressed, abData, abFiles, abAssetObjects, abError, abListed,
          asFile, asAsset>>

(***************************************************************************)
(* Bytes and fixed-width integers.  TLC's integers are 32-bit, so a value  *)
(* that does not fit is reported as Huge (or -Huge): the inputs of this    *)
(* model never need a larger value to be told apart from another.          *)
(***************************************************************************)
Huge == 127 * 16777216 + 16777215

Byte == 0..255

\* a + b of two JavaScript Numbers, within the range the model represents
Sum(a, b) ==
    IF a > 0 /\ b > Huge - a THEN Huge
    ELSE IF a < 0 /\ b < (0 - Huge) - a THEN 0 - Huge
    ELSE a + b

\* byte k (0-based) of buffer b
At(b, k) == b[k + 1]

\* Buffer.slice / copy of [from, from + n)
Slice(b, from, n) == SubSeq(b, from + 1, from + n)

Zeros(n) == [k \in 1..n |-> 0]

U16BE(b, k) == At(b, k) * 256 + At(b, k + 1)

U32BE(b, k) ==
    IF At(b, k) >= 128 THEN Huge
    ELSE At(b, k) * 16777216 + At(b, k + 1) * 65536 + At(b, k + 2) * 256 + At(b, k + 3)

\* a signed 32-bit big-endian value (two's complement)
I32BE(b, k) ==
    IF At(b, k) >= 128
    THEN (At(b, k) - 256) * 16777216 + At(b, k + 1) * 65536 + At(b, k + 2) * 256 + At(b, k + 3)
    ELSE U32BE(b, k)

\* Number(buf.readBigInt64BE()) of the 8 bytes at k
I64BE(b, k) ==
    IF At(b, k) = 0 /\ At(b, k + 1) = 0 /\ At(b, k + 2) = 0 /\ At(b, k + 3) = 0
    THEN U32BE(b, k + 4)
    ELSE IF At(b, k) = 255 /\ At(b, k + 1) = 255 /\ At(b, k + 2) = 255 /\ At(b, k + 3) = 255
              /\ At(b, k + 4) >= 128
         THEN I32BE(b, k + 4)
         ELSE IF At(b, k) >= 128 THEN 0 - Huge ELSE Huge

(***************************************************************************)
(* The buffer-reader package (BufferReader): every operation asserts that  *)
(* it stays inside the buffer and throws otherwise.  A result is a record  *)
(* [err, off, val]: err says the operation threw.                          *)
(***************************************************************************)
Thrown == [err |-> TRUE, off |-> 0, val |-> 0]

Ok(off, val) == [err |-> FALSE, off |-> off, val |-> val]

\* r.seek(pos)
brSeek(b, pos) ==
    IF pos >= 0 /\ pos <= Len(b) THEN Ok(pos, 0) ELSE Thrown

\* r.move(diff)
brMove(b, off, diff) ==
    IF off + diff >= 0 /\ off + diff <= Len(b) THEN Ok(off + diff, 0) ELSE Thrown

\* the mutant of nextBuffer: Buffer.slice semantics, which clamp to the buffer
nextBufferClamped(b, off, n) ==
    LET last == IF off + n > Len(b) THEN Len(b) ELSE off + n
    IN  IF n >= 0 THEN Ok(last, SubSeq(b, off + 1, last)) ELSE Thrown

\* r.nextBuffer(length)
nextBuffer(b, off, n) ==
    IF n >= 0 /\ off + n <= Len(b) THEN Ok(off + n, Slice(b, off, n)) ELSE Thrown

\* r.nextUInt32BE()
nextUInt32BE(b, off) ==
    IF off + 4 <= Len(b) THEN Ok(off + 4, U32BE(b, off)) ELSE Thrown

\* r.nextInt32BE()
nextInt32BE(b, off) ==
    IF off + 4 <= Len(b) THEN Ok(off + 4, I32BE(b, off)) ELSE Thrown

\* r.nextUInt16BE()
nextUInt16BE(b, off) ==
    IF off + 2 <= Len(b) THEN Ok(off + 2, U16BE(b, off)) ELSE Thrown

\* bufferReaderReadBigInt64BE(r)
bufferReaderReadBigInt64BE(b, off) ==
    IF off + 8 <= Len(b) THEN Ok(off + 8, I64BE(b, off)) ELSE Thrown

\* the offsets k >= off with b[k] = 0
ZeroOffsets(b, off) == {k \in off..(Len(b) - 1) : At(b, k) = 0}

\* the least element of a non-empty set of integers
Least(S) == CHOOSE x \in S : \A y \in S : x <= y

\* r.nextStringZero(): the bytes up to the next zero byte, which must exist
nextStringZero(b, off) ==
    IF ZeroOffsets(b, off) = {} THEN Thrown
    ELSE LET z == Least(ZeroOffsets(b, off))
         IN  Ok(z + 1, Slice(b, off, z - off))

(***************************************************************************)
(* getFileType (bundle.ts).  Strings are sequences of character codes.     *)
(***************************************************************************)
UNITY_WEB == <<85, 110, 105, 116, 121, 87, 101, 98>>
UNITY_RAW == <<85, 110, 105, 116, 121, 82, 97, 119>>
UNITY_FS == <<85, 110, 105, 116, 121, 70, 83>>
UNITY_ARCHIVE == <<85, 110, 105, 116, 121, 65, 114, 99, 104, 105, 118, 101>>
UNITY_WEB_DATA_1_0 ==
    <<34, 85, 110, 105, 116, 121, 87, 101, 98, 68, 97, 116, 97, 49, 46, 48, 34>>

GZIP_HEAD == <<31, 139>>
BROTLI_HEAD == <<98, 114, 111, 116, 108, 105>>
ZIP_HEAD == <<80, 75, 3, 4>>
ZIP_SPANNED_HEAD == <<80, 75, 7, 8>>

FileType ==
    {"ASSETS_FILE", "BUNDLE_FILE", "WEB_FILE", "RESOURCE_FILE",
     "GZIP_FILE", "BROTLI_FILE", "ZIP_FILE"}

\* matchHead(magic, start): r.seek(start); r.nextBuffer(magic.length).equals(magic)
matchHead(data, magic, start) ==
    LET s == brSeek(data, start)
    IN  IF s.err THEN Thrown
        ELSE LET h == nextBuffer(data, s.off, Len(magic))
             IN  IF h.err THEN Thrown ELSE Ok(h.off, h.val = magic)

\* isSerializedFile(): the header probe
isSerializedFile(data) ==
    IF Len(data) < 20 THEN FALSE
    ELSE LET version == U32BE(data, 8)
             wide == version >= 22
             fileSize == IF wide /\ Len(data) >= 48 THEN I64BE(data, 24) ELSE U32BE(data, 4)
             dataOffset == IF wide /\ Len(data) >= 48 THEN I64BE(data, 32) ELSE U32BE(data, 12)
         IN  IF wide /\ Len(data) < 48 THEN FALSE
             ELSE IF Len(data) # fileSize THEN FALSE
             ELSE IF dataOffset > fileSize THEN FALSE
             ELSE TRUE

\* getFileType(data): a FileType, or "throw" when a reader assertion fails
getFileType(data) ==
    LET sig == nextStringZero(data, 0)
    IN  IF sig.err THEN "throw"
        ELSE IF sig.val \in {UNITY_WEB, UNITY_RAW, UNITY_ARCHIVE, UNITY_FS} THEN "BUNDLE_FILE"
        ELSE IF sig.val = UNITY_WEB_DATA_1_0 THEN "WEB_FILE"
        ELSE LET gz == matchHead(data, GZIP_HEAD, 0)
             IN  IF gz.err THEN "throw"
                 ELSE IF gz.val THEN "GZIP_FILE"
                 ELSE LET br == matchHead(data, BROTLI_HEAD, 32)
                      IN  IF br.err THEN "throw"
                          ELSE IF br.val THEN "BROTLI_FILE"
                          ELSE IF isSerializedFile(data) THEN "ASSETS_FILE"
                          ELSE LET z1 == matchHead(data, ZIP_HEAD, 0)
                                   z2 == matchHead(data, ZIP_SPANNED_HEAD, 0)
                               IN  IF z1.err THEN "throw"
                                   ELSE IF z1.val THEN "ZIP_FILE"
                                   ELSE IF z2.err THEN "throw"
                                   ELSE IF z2.val THEN "ZIP_FILE"
                                   ELSE "RESOURCE_FILE"

(***************************************************************************)
(* The ArrayBufferReader of utils/reader, as asset.ts and the classes use  *)
(* it: a position and a byte order over a shared buffer.  A read outside   *)
(* the buffer throws; seek and align only set the position.                *)
(***************************************************************************)
U32LE(b, k) ==
    IF At(b, k + 3) >= 128 THEN Huge
    ELSE At(b, k + 3) * 16777216 + At(b, k + 2) * 65536 + At(b, k + 1) * 256 + At(b, k)

I32LE(b, k) ==
    IF At(b, k + 3) >= 128
    THEN (At(b, k + 3) - 256) * 16777216 + At(b, k + 2) * 65536 + At(b, k + 1) * 256 + At(b, k)
    ELSE U32LE(b, k)

U16LE(b, k) == At(b, k + 1) * 256 + At(b, k)

\* an unsigned 64-bit value whose upper half is zero, Huge otherwise
U64BE(b, k) ==
    IF At(b, k) = 0 /\ At(b, k + 1) = 0 /\ At(b, k + 2) = 0 /\ At(b, k + 3) = 0
    THEN U32BE(b, k + 4) ELSE Huge

U64LE(b, k) ==
    IF At(b, k + 4) = 0 /\ At(b, k + 5) = 0 /\ At(b, k + 6) = 0 /\ At(b, k + 7) = 0
    THEN U32LE(b, k) ELSE Huge

I64LE(b, k) ==
    IF At(b, k + 7) >= 128
    THEN (IF At(b, k + 4) = 255 /\ At(b, k + 5) = 255 /\ At(b, k + 6) = 255 /\ At(b, k + 7) = 255
             /\ At(b, k + 3) >= 128
          THEN I32LE(b, k) ELSE 0 - Huge)
    ELSE U64LE(b, k)

\* the mutant of align4: the position is left as it is
alignNone(pos) == pos

\* r.align(4)
align4(pos) == pos + ((4 - (pos % 4)) % 4)

InBuf(b, pos, n) == pos >= 0 /\ n >= 0 /\ pos <= Len(b) /\ n <= Len(b) - pos

\* r.readUInt8()
readUInt8(b, pos) == IF InBuf(b, pos, 1) THEN Ok(pos + 1, At(b, pos)) ELSE Thrown

\* r.readUInt16() / r.readInt16() in the reader's byte order
readUInt16(b, pos, le) ==
    IF InBuf(b, pos, 2) THEN Ok(pos + 2, IF le THEN U16LE(b, pos) ELSE U16BE(b, pos))
    ELSE Thrown

readInt16(b, pos, le) ==
    LET u == readUInt16(b, pos, le)
    IN  IF u.err THEN Thrown ELSE Ok(u.off, IF u.val >= 32768 THEN u.val - 65536 ELSE u.val)

\* r.readUInt32() / r.readInt32()
readUInt32(b, pos, le) ==
    IF InBuf(b, pos, 4) THEN Ok(pos + 4, IF le THEN U32LE(b, pos) ELSE U32BE(b, pos))
    ELSE Thrown

readInt32(b, pos, le) ==
    IF InBuf(b, pos, 4) THEN Ok(pos + 4, IF le THEN I32LE(b, pos) ELSE I32BE(b, pos))
    ELSE Thrown

\* r.readUInt64() / r.readInt64()
readUInt64(b, pos, le) ==
    IF InBuf(b, pos, 8) THEN Ok(pos + 8, IF le THEN U64LE(b, pos) ELSE U64BE(b, pos))
    ELSE Thrown

readInt64(b, pos, le) ==
    IF InBuf(b, pos, 8) THEN Ok(pos + 8, IF le THEN I64LE(b, pos) ELSE I64BE(b, pos))
    ELSE Thrown

\* r.readUInt8Slice(n)
readUInt8Slice(b, pos, n) ==
    IF InBuf(b, pos, n) THEN Ok(pos + n, Slice(b, pos, n)) ELSE Thrown

\* r.readStringUntilZero()
readStringUntilZero(b, pos) ==
    IF pos < 0 \/ ZeroOffsets(b, pos) = {} THEN Thrown
    ELSE LET z == Least(ZeroOffsets(b, pos))
         IN  Ok(z + 1, Slice(b, pos, z - pos))

\* r.readAlignedString(): a 32-bit length, that many bytes, then align(4)
readAlignedString(b, pos, le) ==
    LET n == readInt32(b, pos, le)
    IN  IF n.err THEN Thrown
        ELSE IF ~InBuf(b, n.off, n.val) THEN Thrown
        ELSE Ok(align4(n.off + n.val), Slice(b, n.off, n.val))

(***************************************************************************)
(* AssetBase.typeTree (classes/base.ts): the type-tree interpreter.        *)
(* A schema node is [level, typeStr, nameStr].  A decoded value is tagged: *)
(* [t |-> "int" | "float" | "str" | "arr" | "obj" | "undef", v |-> ...];   *)
(* an object is the sequence of its [k, v] fields in insertion order.      *)
(***************************************************************************)
Val(t, v) == [t |-> t, v |-> v]

Undefined == Val("undef", 0)

\* object[name] = value
setField(object, name, value) ==
    IF \E i \in 1..Len(object) : object[i].k = name
    THEN [i \in 1..Len(object) |->
              IF object[i].k = name THEN [k |-> name, v |-> value] ELSE object[i]]
    ELSE Append(object, [k |-> name, v |-> value])

\* object[name]
getField(object, name) ==
    IF \E i \in 1..Len(object) : object[i].k = name
    THEN object[CHOOSE i \in 1..Len(object) : object[i].k = name].v
    ELSE Undefined

\* remap(method): method.replace('SInt', 'Int'), then the methods table
remap(method) ==
    CASE method = "SInt8" -> "Int8"
      [] method = "SInt16" -> "Int16"
      [] method = "SInt32" -> "Int32"
      [] method = "SInt64" -> "Int64"
      [] method = "int" -> "Int32"
      [] method = "string" -> "AlignedString"
      [] method = "float" -> "Float32"
      [] OTHER -> method

\* reader[`read${method}`](): throws when the reader has no such method
readLeaf(method, b, pos, le) ==
    CASE method = "UInt8" ->
             LET r == readUInt8(b, pos) IN IF r.err THEN Thrown ELSE Ok(r.off, Val("int", r.val))
      [] method = "UInt16" ->
             LET r == readUInt16(b, pos, le) IN IF r.err THEN Thrown ELSE Ok(r.off, Val("int", r.val))
      [] method = "Int16" ->
             LET r == readInt16(b, pos, le) IN IF r.err THEN Thrown ELSE Ok(r.off, Val("int", r.val))
      [] method = "UInt32" ->
             LET r == readUInt32(b, pos, le) IN IF r.err THEN Thrown ELSE Ok(r.off, Val("int", r.val))
      [] method = "Int32" ->
             LET r == readInt32(b, pos, le) IN IF r.err THEN Thrown ELSE Ok(r.off, Val("int", r.val))
      [] method = "UInt64" ->
             LET r == readUInt64(b, pos, le) IN IF r.err THEN Thrown ELSE Ok(r.off, Val("int", r.val))
      [] method = "Int64" ->
             LET r == readInt64(b, pos, le) IN IF r.err THEN Thrown ELSE Ok(r.off, Val("int", r.val))
      [] method = "Float32" ->
             LET r == readUInt32(b, pos, le) IN IF r.err THEN Thrown ELSE Ok(r.off, Val("float", r.val))
      [] method = "AlignedString" ->
             LET r == readAlignedString(b, pos, le)
             IN  IF r.err THEN Thrown ELSE Ok(r.off, Val("str", r.val))
      [] OTHER -> Thrown

\* the mutant of skipToNextField: the cursor is left on the Array descriptor
skipNothing(nodes, index, level) == index

\* while (index < nodes.length && nodes[index].level > node.level) index++
skipToNextField(nodes, index, level) ==
    LET stops == {j \in index..(Len(nodes) - 1) : nodes[j + 1].level <= level}
    IN  IF index >= Len(nodes) THEN index
        ELSE IF stops = {} THEN Len(nodes) ELSE Least(stops)

\* the mutant of stringSkip: only the Array and size descriptors are skipped
stringSkipTwo(typeStr) == IF typeStr = "string" THEN 2 ELSE 0

\* if (node.typeStr === 'string') index += 3
stringSkip(typeStr) == IF typeStr = "string" THEN 3 ELSE 0

\* the interpreter's state: the node cursor, the reader position, whether it
\* threw, and the log of the fields decoded so far (one entry per field, made
\* when its decoding returns)
Throw(st) == [st EXCEPT !.err = TRUE]

FieldEvent(i, node, kind, st0, st1, count, value) ==
    [i |-> i, level |-> node.level, name |-> node.nameStr, kind |-> kind,
     after |-> st1.index, from |-> st0.pos, to |-> st1.pos, count |-> count,
     value |-> value]

Logged(st, ev) == [st EXCEPT !.log = Append(@, ev)]

RECURSIVE readFields(_, _, _, _, _, _)
RECURSIVE readElements(_, _, _, _, _, _, _)

\* readObject(): nodes[index].level throws when the cursor is past the last node
readObject(nodes, b, le, st) ==
    IF st.err THEN [obj |-> <<>>, st |-> st]
    ELSE IF st.index >= Len(nodes) THEN [obj |-> <<>>, st |-> Throw(st)]
    ELSE readFields(nodes, b, le, nodes[st.index + 1].level, <<>>, st)

\* the for loop of the array branch: index = startIndex; array.push(readObject().data)
readElements(nodes, b, le, length, startIndex, array, st) ==
    IF st.err \/ Len(array) >= length THEN [arr |-> array, st |-> st]
    ELSE LET push(r) == readElements(nodes, b, le, length, startIndex,
                                     Append(array, getField(r.obj, "data")), r.st)
         IN  push(readObject(nodes, b, le, [st EXCEPT !.index = startIndex]))

\* the while loop of readObject
readFields(nodes, b, le, initialLevel, object, st) ==
    IF st.err \/ st.index >= Len(nodes) THEN [obj |-> object, st |-> st]
    ELSE
    LET i == st.index
        node == nodes[i + 1]
        hasNext == i + 1 < Len(nodes)
        nextNode == nodes[i + 2]
        st1 == [st EXCEPT !.index = i + 1]
        \* object[node.nameStr] = value, and the loop goes on from state to
        next(value, kind, count, to) ==
            readFields(nodes, b, le, initialLevel, setField(object, node.nameStr, value),
                       IF to.err THEN to
                       ELSE Logged(to, FieldEvent(i, node, kind, st, to, count, value)))
        \* the array branch, given the length read
        array(length) ==
            IF length.err THEN [obj |-> object, st |-> Throw(st1)]
            ELSE IF length.val # 0
            THEN LET filled(e) == next(Val("arr", e.arr), "array", length.val, e.st)
                 IN  filled(readElements(nodes, b, le, length.val, i + 3, <<>>,
                                         [st1 EXCEPT !.pos = length.off, !.index = i + 3]))
            ELSE next(Val("arr", <<>>), "array", 0,
                      [st1 EXCEPT !.pos = length.off,
                                  !.index = skipToNextField(nodes, i + 1, node.level)])
        \* the nested record branch, given the record read
        record(r) == next(Val("obj", r.obj), "record", 0, r.st)
        \* the leaf branch, given the value read
        leaf(v) ==
            IF v.err THEN [obj |-> object, st |-> Throw(st1)]
            ELSE next(v.val, IF node.typeStr = "string" THEN "string" ELSE "leaf", 0,
                      [st1 EXCEPT !.pos = align4(v.off),
                                  !.index = i + 1 + stringSkip(node.typeStr)])
    IN  IF node.level <= initialLevel - 1 THEN [obj |-> object, st |-> st]
        ELSE IF hasNext /\ nextNode.level > node.level /\ node.typeStr # "string"
        THEN IF nextNode.typeStr = "Array"
             THEN array(readUInt32(b, st.pos, le))
             ELSE record(readObject(nodes, b, le, st1))
        ELSE leaf(readLeaf(remap(node.typeStr), b, st.pos, le))

\* the interpreter run of typeTree(): the reader is at bytesStart, index = 0
runTypeTree(b, le, info) ==
    LET st0 == [index |-> 0, pos |-> info.bytesStart, err |-> FALSE, log |-> <<>>]
        returned(run) ==
            [threw |-> run.st.err,
             result |-> IF run.st.err THEN Undefined ELSE getField(run.obj, "Base"),
             log |-> run.st.log,
             index0 |-> st0.index, pos0 |-> st0.pos, pos |-> run.st.pos]
    IN  returned(readObject(info.tree, b, le, st0))

\* the mutant of typeTree: the interpreter reads through this.reader itself
typeTreeNoClone(b, le, info, reader) ==
    LET left(run) == [run |-> run, reader |-> run.pos]
    IN  left(runTypeTree(b, le, info))

\* typeTree(): const reader = this.reader.clone(); reader.seek(bytesStart); ...
\* returns the run and the position this.reader is left at
typeTree(b, le, info, reader) ==
    [run |-> runTypeTree(b, le, info), reader |-> reader]

(***************************************************************************)
(* The serialized file parser: the Asset constructor, readType and         *)
(* readTypeTreeBlob (asset.ts).  A parser result carries err (it threw),   *)
(* pos (the reader position) and what was read.                            *)
(***************************************************************************)
\* the byte order of a new ArrayBufferReader, before setLittleEndian
DefaultLittleEndian == FALSE

\* knownTypes.get(offset)
knownTypes(offset) ==
    CASE offset = 0 -> "AABB"
      [] offset = 5 -> "AnimationClip"
      [] offset = 19 -> "AnimationCurve"
      [] offset = 34 -> "AnimationState"
      [] offset = 49 -> "Array"
      [] offset = 55 -> "Base"
      [] offset = 60 -> "BitField"
      [] offset = 69 -> "bitset"
      [] offset = 76 -> "bool"
      [] offset = 81 -> "char"
      [] offset = 86 -> "ColorRGBA"
      [] offset = 96 -> "Component"
      [] offset = 106 -> "data"
      [] offset = 111 -> "deque"
      [] offset = 117 -> "double"
      [] offset = 124 -> "dynamic_array"
      [] offset = 138 -> "FastPropertyName"
      [] offset = 155 -> "first"
      [] offset = 161 -> "float"
      [] offset = 167 -> "Font"
      [] offset = 172 -> "GameObject"
      [] offset = 183 -> "Generic Mono"
      [] offset = 196 -> "GradientNEW"
      [] offset = 208 -> "GUID"
      [] offset = 213 -> "GUIStyle"
      [] offset = 222 -> "int"
      [] offset = 226 -> "list"
      [] offset = 231 -> "long long"
      [] offset = 241 -> "map"
      [] offset = 245 -> "Matrix4x4f"
      [] offset = 256 -> "MdFour"
      [] offset = 263 -> "MonoBehaviour"
      [] offset = 277 -> "MonoScript"
      [] offset = 288 -> "m_ByteSize"
      [] offset = 299 -> "m_Curve"
      [] offset = 307 -> "m_EditorClassIdentifier"
      [] offset = 331 -> "m_EditorHideFlags"
      [] offset = 349 -> "m_Enabled"
      [] offset = 359 -> "m_ExtensionPtr"
      [] offset = 374 -> "m_GameObject"
      [] offset = 387 -> "m_Index"
      [] offset = 395 -> "m_IsArray"
      [] offset = 405 -> "m_IsStatic"
      [] offset = 416 -> "m_MetaFlag"
      [] offset = 427 -> "m_Name"
      [] offset = 434 -> "m_ObjectHideFlags"
      [] offset = 452 -> "m_PrefabInternal"
      [] offset = 469 -> "m_PrefabParentObject"
      [] offset = 490 -> "m_Script"
      [] offset = 499 -> "m_StaticEditorFlags"
      [] offset = 519 -> "m_Type"
      [] offset = 526 -> "m_Version"
      [] offset = 536 -> "Object"
      [] offset = 543 -> "pair"
      [] offset = 548 -> "PPtr<Component>"
      [] offset = 564 -> "PPtr<GameObject>"
      [] offset = 581 -> "PPtr<Material>"
      [] offset = 596 -> "PPtr<MonoBehaviour>"
      [] offset = 616 -> "PPtr<MonoScript>"
      [] offset = 633 -> "PPtr<Object>"
      [] offset = 646 -> "PPtr<Prefab>"
      [] offset = 659 -> "PPtr<Sprite>"
      [] offset = 672 -> "PPtr<TextAsset>"
      [] offset = 688 -> "PPtr<Texture>"
      [] offset = 702 -> "PPtr<Texture2D>"
      [] offset = 718 -> "PPtr<Transform>"
      [] offset = 734 -> "Prefab"
      [] offset = 741 -> "Quaternionf"
      [] offset = 753 -> "Rectf"
      [] offset = 759 -> "RectInt"
      [] offset = 767 -> "RectOffset"
      [] offset = 778 -> "second"
      [] offset = 785 -> "set"
      [] offset = 789 -> "short"
      [] offset = 795 -> "size"
      [] offset = 800 -> "SInt16"
      [] offset = 807 -> "SInt32"
      [] offset = 814 -> "SInt64"
      [] offset = 821 -> "SInt8"
      [] offset = 827 -> "staticvector"
      [] offset = 840 -> "string"
      [] offset = 847 -> "TextAsset"
      [] offset = 857 -> "TextMesh"
      [] offset = 866 -> "Texture"
      [] offset = 874 -> "Texture2D"
      [] offset = 884 -> "Transform"
      [] offset = 894 -> "TypelessData"
      [] offset = 907 -> "UInt16"
      [] offset = 914 -> "UInt32"
      [] offset = 921 -> "UInt64"
      [] offset = 928 -> "UInt8"
      [] offset = 934 -> "unsigned int"
      [] offset = 947 -> "unsigned long long"
      [] offset = 966 -> "unsigned short"
      [] offset = 981 -> "vector"
      [] offset = 988 -> "Vector2f"
      [] offset = 997 -> "Vector3f"
      [] offset = 1006 -> "Vector4f"
      [] offset = 1015 -> "m_ScriptingClassIdentifier"
      [] offset = 1042 -> "Gradient"
      [] offset = 1051 -> "Type*"
      [] offset = 1057 -> "int2_storage"
      [] offset = 1070 -> "int3_storage"
      [] offset = 1083 -> "BoundsInt"
      [] offset = 1093 -> "m_CorrespondingSourceObject"
      [] offset = 1121 -> "m_PrefabInstance"
      [] offset = 1138 -> "m_PrefabAsset"
      [] offset = 1152 -> "FileSize"
      [] offset = 1161 -> "Hash128"
      [] offset = 1169 -> "RenderingLayerMask"
      [] OTHER -> "undefined"

\* the text of a byte string read from the file: the names the model's files
\* spell out in their local string tables
Spellings ==
    {<<"Base", <<66, 97, 115, 101>>>>, <<"Array", <<65, 114, 114, 97, 121>>>>,
     <<"string", <<115, 116, 114, 105, 110, 103>>>>, <<"int", <<105, 110, 116>>>>,
     <<"data", <<100, 97, 116, 97>>>>, <<"size", <<115, 105, 122, 101>>>>,
     <<"m_A", <<109, 95, 65>>>>, <<"m_B", <<109, 95, 66>>>>, <<"", <<>>>>}

Text(bytes) ==
    IF \E sp \in Spellings : sp[2] = bytes
    THEN (CHOOSE sp \in Spellings : sp[2] = bytes)[1]
    ELSE "?"

\* a 32-bit offset as its top bit and its low 31 bits
readOffset(b, pos, le) ==
    LET top == IF le THEN At(b, pos + 3) ELSE At(b, pos)
        low == IF le
               THEN (At(b, pos + 3) % 128) * 16777216 + At(b, pos + 2) * 65536
                        + At(b, pos + 1) * 256 + At(b, pos)
               ELSE (At(b, pos) % 128) * 16777216 + At(b, pos + 1) * 65536
                        + At(b, pos + 2) * 256 + At(b, pos + 3)
    IN  [known |-> top >= 128, offset |-> low]

\* the while loop that fills customTypes: the offsets at which a string starts,
\* and the position after the last string read
RECURSIVE readStringTable(_, _, _, _, _)
readStringTable(b, start, stringBufferSize, pos, starts) ==
    IF pos >= start + stringBufferSize THEN [err |-> FALSE, pos |-> pos, starts |-> starts]
    ELSE LET str == readStringUntilZero(b, pos)
         IN  IF str.err THEN [err |-> TRUE, pos |-> pos, starts |-> starts]
             ELSE readStringTable(b, start, stringBufferSize, str.off,
                                  starts \cup {pos - start})

\* getType(offset)
getType(b, start, starts, off) ==
    IF off.known THEN knownTypes(off.offset)
    ELSE IF off.offset \in starts
         THEN Text(readStringUntilZero(b, start + off.offset).val)
         ELSE "undefined"

\* readTypeTreeBlob()
readTypeTreeBlob(b, pos, le, version) ==
    LET failed == [err |-> TRUE, pos |-> pos, nodes |-> <<>>]
        nodeSize == IF version >= 19 THEN 28 ELSE 24
        first == pos + 8
        \* the nodes with their strings resolved, given the string table read
        typed(count, start, table) ==
            LET node(i) ==
                    LET at == first + (i - 1) * nodeSize
                    IN  [version |-> readUInt16(b, at, le).val,
                         level |-> readUInt8(b, at + 2).val,
                         typeFlags |-> readUInt8(b, at + 3).val,
                         byteSize |-> readInt32(b, at + 12, le).val,
                         index |-> readInt32(b, at + 16, le).val,
                         metaFlag |-> readUInt32(b, at + 20, le).val,
                         typeStr |-> getType(b, start, table.starts, readOffset(b, at + 4, le)),
                         nameStr |-> getType(b, start, table.starts, readOffset(b, at + 8, le))]
            IN  IF table.err THEN failed
                ELSE [err |-> FALSE, pos |-> table.pos, nodes |-> [i \in 1..count |-> node(i)]]
        \* the node loop, then the string buffer that starts after the nodes
        sized(count, stringBufferSize, start) ==
            IF ~InBuf(b, first, count * nodeSize) THEN failed
            ELSE typed(count, start, readStringTable(b, start, stringBufferSize, start, {}))
        counted(nodeNumber, stringBufferSize) ==
            IF nodeNumber.err \/ stringBufferSize.err THEN failed
            ELSE LET count == IF nodeNumber.val > 0 THEN nodeNumber.val ELSE 0
                 IN  sized(count, stringBufferSize.val, first + count * nodeSize)
    IN  counted(readInt32(b, pos, le), readInt32(b, pos + 4, le))

\* readType: the versions whose type tree is laid out as readTypeTreeBlob reads it
blobLayoutSupported(version) == version >= 12 \/ version = 10

\* readType(isRefType): one TypeInfo [classId, tree]; unsupported says the
\* failure is the 'Unsupported asset version' error
readType(b, pos, le, version, enableTypeTree, isRefType) ==
    LET failed == [err |-> TRUE, unsupported |-> FALSE, pos |-> pos,
                   info |-> [classId |-> 0, tree |-> <<>>]]
        hasScriptTypeIndex == version >= 17
        p1 == IF version >= 16 THEN pos + 5 ELSE pos + 4
        p2 == IF hasScriptTypeIndex THEN p1 + 2 ELSE p1
        \* this.types.push(info)
        pushed(classId, tree, p) ==
            [err |-> FALSE, unsupported |-> FALSE, pos |-> p,
             info |-> [classId |-> classId, tree |-> tree]]
        \* the three strings of a reference type
        third(classId, tree, str) ==
            IF str.err THEN failed ELSE pushed(classId, tree, str.off)
        second(classId, tree, str) ==
            IF str.err THEN failed
            ELSE third(classId, tree, readStringUntilZero(b, str.off))
        firstOf(classId, tree, str) ==
            IF str.err THEN failed
            ELSE second(classId, tree, readStringUntilZero(b, str.off))
        \* const size = r.readInt32(); r.move(size * 4)
        dependencies(classId, tree, size) ==
            IF size.err THEN failed ELSE pushed(classId, tree, size.off + size.val * 4)
        \* if (version >= 21) after the tree
        treeRead(classId, tree, p) ==
            IF version >= 21
            THEN (IF isRefType THEN firstOf(classId, tree, readStringUntilZero(b, p))
                  ELSE dependencies(classId, tree, readInt32(b, p, le)))
            ELSE pushed(classId, tree, p)
        blobRead(classId, blob) ==
            IF blob.err THEN failed ELSE treeRead(classId, blob.nodes, blob.pos)
        \* after classId and scriptTypeIndex: the hashes, then the tree
        started(classId, scriptTypeIndex) ==
            IF classId.err \/ (hasScriptTypeIndex /\ scriptTypeIndex.err) THEN failed
            ELSE LET p3 == IF version >= 13
                           THEN (IF \/ isRefType /\ hasScriptTypeIndex
                                    \/ version < 16 /\ classId.val < 0
                                    \/ version >= 16 /\ classId.val = 114
                                 THEN p2 + 32 ELSE p2 + 16)
                           ELSE p2
                 IN  IF ~enableTypeTree THEN pushed(classId.val, <<>>, p3)
                     ELSE IF ~blobLayoutSupported(version)
                          THEN [failed EXCEPT !.unsupported = TRUE]
                     ELSE blobRead(classId.val, readTypeTreeBlob(b, p3, le, version))
    IN  started(readInt32(b, pos, le), readInt16(b, p1, le))

\* for (let i = 0; i < typeCount; i++) this.readType(false)
RECURSIVE readTypes(_, _, _, _, _, _, _)
readTypes(b, pos, le, version, enableTypeTree, typeCount, types) ==
    IF Len(types) >= typeCount
    THEN [err |-> FALSE, unsupported |-> FALSE, pos |-> pos, types |-> types]
    ELSE LET pushed(t) ==
                 IF t.err THEN [err |-> TRUE, unsupported |-> t.unsupported, pos |-> pos,
                                types |-> types]
                 ELSE readTypes(b, t.pos, le, version, enableTypeTree, typeCount,
                                Append(types, t.info))
         IN  pushed(readType(b, pos, le, version, enableTypeTree, FALSE))

\* the mutant of readPathId: the reader is aligned before the 64 bits when big-id
\* mode comes from the flag, and not when it comes from the version
readPathIdAlignedForFlag(b, pos, le, version, enableBigId) ==
    LET r == IF enableBigId THEN readInt64(b, align4(pos), le)
             ELSE IF version < 14 THEN readInt32(b, pos, le)
             ELSE readInt64(b, pos, le)
    IN  [err |-> r.err, off |-> r.off, val |-> r.val,
         wide |-> enableBigId \/ version >= 14,
         aligned |-> enableBigId]

\* the path id of one object directory entry (lines 133-138): the value read, whether
\* it is 64 bits wide, and whether the reader was aligned before it
readPathId(b, pos, le, version, enableBigId) ==
    LET r == IF enableBigId THEN readInt64(b, pos, le)
             ELSE IF version < 14 THEN readInt32(b, pos, le)
             ELSE readInt64(b, align4(pos), le)
    IN  [err |-> r.err, off |-> r.off, val |-> r.val,
         wide |-> enableBigId \/ version >= 14,
         aligned |-> ~enableBigId /\ version >= 14]

\* the body of the object directory loop: one ObjectInfo.  Each step takes the
\* loop body's state so far, [err, pos, info], and returns it after its lines
readObjectInfo(b, pos, le, header, enableBigId, types) ==
    LET version == header.version
        failed == [err |-> TRUE, pos |-> pos, info |-> <<>>]
        \* lines 117-131
        created ==
            [err |-> FALSE, pos |-> pos,
             info |-> [assetVersion |-> version, pathId |-> 0, pathIdWide |-> FALSE,
                       pathIdAligned |-> FALSE, bytesStart |-> 0, bytesSize |-> 0,
                       typeId |-> 0, classId |-> 0, isDestroyed |-> 0, stripped |-> 0,
                       tree |-> <<>>]]
        hasType(s) == s.info.typeId >= 0 /\ s.info.typeId < Len(types)
        \* lines 133-138
        pathId(s) ==
            LET r == readPathId(b, s.pos, le, version, enableBigId)
            IN  IF r.err THEN failed
                ELSE [s EXCEPT !.pos = r.off, !.info.pathId = r.val,
                               !.info.pathIdWide = r.wide, !.info.pathIdAligned = r.aligned]
        \* lines 139-140
        bytesStart(s) ==
            IF s.err THEN s
            ELSE LET r == IF version >= 22 THEN readUInt64(b, s.pos, le)
                          ELSE readUInt32(b, s.pos, le)
                 IN  IF r.err THEN failed
                     ELSE [s EXCEPT !.pos = r.off,
                                    !.info.bytesStart = Sum(r.val, header.dataOffset)]
        \* line 141
        bytesSize(s) ==
            IF s.err THEN s
            ELSE LET r == readUInt32(b, s.pos, le)
                 IN  IF r.err THEN failed
                     ELSE [s EXCEPT !.pos = r.off, !.info.bytesSize = r.val]
        \* line 142
        typeId(s) ==
            IF s.err THEN s
            ELSE LET r == readInt32(b, s.pos, le)
                 IN  IF r.err THEN failed
                     ELSE [s EXCEPT !.pos = r.off, !.info.typeId = r.val]
        \* lines 143-144
        classId(s) ==
            IF s.err THEN s
            ELSE IF version < 16
            THEN LET r == readUInt16(b, s.pos, le)
                 IN  IF r.err THEN failed
                     ELSE [s EXCEPT !.pos = r.off, !.info.classId = r.val]
            ELSE IF ~hasType(s) THEN failed
            ELSE [s EXCEPT !.info.classId = types[s.info.typeId + 1].classId]
        \* lines 145-146
        isDestroyed(s) ==
            IF s.err THEN s
            ELSE IF version < 11
            THEN LET r == readUInt16(b, s.pos, le)
                 IN  IF r.err THEN failed
                     ELSE [s EXCEPT !.pos = r.off, !.info.isDestroyed = r.val]
            ELSE IF version < 17 THEN [s EXCEPT !.pos = s.pos + 2]
            ELSE s
        \* line 147
        stripped(s) ==
            IF s.err \/ ~(version = 15 \/ version = 16) THEN s
            ELSE LET r == readUInt8(b, s.pos)
                 IN  IF r.err THEN failed
                     ELSE [s EXCEPT !.pos = r.off, !.info.stripped = r.val]
        \* line 149
        tree(s) ==
            IF s.err THEN s
            ELSE IF ~hasType(s) THEN failed
            ELSE [s EXCEPT !.info.tree = types[s.info.typeId + 1].tree]
    IN  tree(stripped(isDestroyed(classId(typeId(bytesSize(bytesStart(pathId(created))))))))

\* for (let i = 0; i < objectCount; i++) { ... this.objectInfos.push(info) }
RECURSIVE readObjectInfos(_, _, _, _, _, _, _, _)
readObjectInfos(b, pos, le, header, enableBigId, types, objectCount, infos) ==
    IF Len(infos) >= objectCount THEN [err |-> FALSE, pos |-> pos, infos |-> infos]
    ELSE LET pushed(o) ==
                 IF o.err THEN [err |-> TRUE, pos |-> pos, infos |-> infos]
                 ELSE readObjectInfos(b, o.pos, le, header, enableBigId, types,
                                      objectCount, Append(infos, o.info))
         IN  pushed(readObjectInfo(b, pos, le, header, enableBigId, types))

\* the first letter of the engine version: unityVersion.match(/[a-z]/i)?.[0] ?? ''
buildTypeOf(unityVersion) ==
    LET letters == {k \in 1..Len(unityVersion) :
                       \/ unityVersion[k] \in 65..90
                       \/ unityVersion[k] \in 97..122}
    IN  IF letters = {} THEN <<>> ELSE <<unityVersion[Least(letters)]>>

FailedAsset ==
    [err |-> TRUE, unsupported |-> FALSE, pos |-> 0, le |-> FALSE, fileEndianness |-> 0,
     header |-> [metadataSize |-> 0, fileSize |-> 0, version |-> 0, dataOffset |-> 0,
                 endianness |-> 0],
     unityVersion |-> <<>>, buildType |-> <<>>, targetPlatform |-> 0,
     enableTypeTree |-> FALSE, enableBigId |-> FALSE, types |-> <<>>, objectInfos |-> <<>>]

\* the mutant of hasTypeTreeFlag: the flag is read from version 8 on
hasTypeTreeFlagFrom8(version) == version >= 8

\* if (header.version >= 13): the header carries the 'type trees enabled' flag
hasTypeTreeFlag(version) == version >= 13

\* new Asset(data): the constructor.  Each step takes the fields assigned so far
\* and the reader position, and returns them after its lines
Asset(b) ==
    LET \* lines 68-74
        readHeader ==
            IF Len(b) < 16 THEN FailedAsset
            ELSE [FailedAsset EXCEPT
                     !.err = FALSE, !.pos = 16,
                     !.header = [metadataSize |-> U32BE(b, 0), fileSize |-> U32BE(b, 4),
                                 version |-> U32BE(b, 8), dataOffset |-> U32BE(b, 12),
                                 endianness |-> 0]]
        \* lines 76-82
        readEndianness(a) ==
            IF a.err THEN a
            ELSE LET new == a.header.version >= 9
                     r == readUInt8(b, IF new THEN a.pos
                                       ELSE a.header.fileSize - a.header.metadataSize)
                 IN  IF r.err THEN FailedAsset
                     ELSE [a EXCEPT !.fileEndianness = r.val,
                                    !.header.endianness = IF new THEN r.val ELSE 0,
                                    !.pos = IF new THEN r.off + 3 ELSE r.off]
        \* lines 83-88
        readWideHeader(a) ==
            IF a.err \/ a.header.version < 22 THEN a
            ELSE LET m == readUInt32(b, a.pos, DefaultLittleEndian)
                     f == readUInt64(b, a.pos + 4, DefaultLittleEndian)
                     d == readUInt64(b, a.pos + 12, DefaultLittleEndian)
                 IN  IF m.err \/ f.err \/ d.err THEN FailedAsset
                     ELSE [a EXCEPT !.header.metadataSize = m.val,
                                    !.header.fileSize = f.val,
                                    !.header.dataOffset = d.val,
                                    !.pos = a.pos + 28]
        \* line 89
        setLittleEndian(a) ==
            IF a.err THEN a ELSE [a EXCEPT !.le = (a.fileEndianness = 0)]
        \* lines 90-98
        readUnityVersion(a) ==
            IF a.err \/ a.header.version < 7 THEN a
            ELSE LET r == readStringUntilZero(b, a.pos)
                 IN  IF r.err THEN FailedAsset
                     ELSE [a EXCEPT !.unityVersion = r.val,
                                    !.buildType = buildTypeOf(r.val), !.pos = r.off]
        \* lines 99-101
        readTargetPlatform(a) ==
            IF a.err \/ a.header.version < 8 THEN a
            ELSE LET r == readInt32(b, a.pos, a.le)
                 IN  IF r.err THEN FailedAsset
                     ELSE [a EXCEPT !.targetPlatform = r.val, !.pos = r.off]
        \* lines 102-104
        readEnableTypeTree(a) ==
            IF a.err \/ ~hasTypeTreeFlag(a.header.version) THEN a
            ELSE LET r == readUInt8(b, a.pos)
                 IN  IF r.err THEN FailedAsset
                     ELSE [a EXCEPT !.enableTypeTree = (r.val # 0), !.pos = r.off]
        \* lines 106-109
        readTypeList(a) ==
            IF a.err THEN a
            ELSE LET typeCount == readInt32(b, a.pos, a.le)
                     read(ts) == IF ts.err
                                 THEN [FailedAsset EXCEPT !.unsupported = ts.unsupported]
                                 ELSE [a EXCEPT !.types = ts.types, !.pos = ts.pos]
                 IN  IF typeCount.err THEN FailedAsset
                     ELSE read(readTypes(b, typeCount.off, a.le, a.header.version,
                                         a.enableTypeTree, typeCount.val, <<>>))
        \* lines 111-113
        readEnableBigId(a) ==
            IF a.err \/ ~(a.header.version >= 7 /\ a.header.version < 14) THEN a
            ELSE LET r == readInt32(b, a.pos, a.le)
                 IN  IF r.err THEN FailedAsset
                     ELSE [a EXCEPT !.enableBigId = (r.val # 0), !.pos = r.off]
        \* lines 115-152
        readObjectList(a) ==
            IF a.err THEN a
            ELSE LET objectCount == readUInt32(b, a.pos, a.le)
                     read(os) == IF os.err THEN FailedAsset
                                 ELSE [a EXCEPT !.objectInfos = os.infos, !.pos = os.pos]
                 IN  IF objectCount.err THEN FailedAsset
                     ELSE read(readObjectInfos(b, objectCount.off, a.le, a.header,
                                               a.enableBigId, a.types, objectCount.val,
                                               <<>>))
    IN  readObjectList(readEnableBigId(readTypeList(readEnableTypeTree(
            readTargetPlatform(readUnityVersion(setLittleEndian(readWideHeader(
                readEndianness(readHeader)))))))))

(***************************************************************************)
(* The object decoder registry (classes/index.ts) and the decoders of      *)
(* classes/base.ts and classes/monoBehaviour.ts.  A decoded object keeps   *)
(* its info, its name and the position its reader is left at.              *)
(***************************************************************************)
\* the class ids of classes/types
AssetType ==
    [TextAsset |-> 49, Texture2D |-> 28, Sprite |-> 213, SpriteAtlas |-> 687078895,
     AssetBundle |-> 142, MonoBehaviour |-> 114, MonoScript |-> 115]

\* the mutant of classMap: TextAsset is not registered
classMapWithoutTextAsset ==
    {AssetType.Texture2D, AssetType.Sprite, AssetType.SpriteAtlas, AssetType.AssetBundle,
     AssetType.MonoBehaviour, AssetType.MonoScript}

\* the keys of classMap
classMap ==
    {AssetType.TextAsset, AssetType.Texture2D, AssetType.Sprite, AssetType.SpriteAtlas,
     AssetType.AssetBundle, AssetType.MonoBehaviour, AssetType.MonoScript}

\* new PPtr(info, r) of classes/pptr: a file id and a path id
readPPtr(b, pos, le, info) ==
    LET pathId(fileId) ==
            IF fileId.err THEN Thrown
            ELSE LET r == IF info.assetVersion < 14 THEN readInt32(b, fileId.off, le)
                          ELSE readInt64(b, fileId.off, le)
                 IN  IF r.err THEN Thrown ELSE Ok(r.off, 0)
    IN  pathId(readInt32(b, pos, le))

\* the AssetBase constructor: r.seek(bytesStart); this.name = r.readAlignedString()
AssetBaseNew(b, le, info) == readAlignedString(b, info.bytesStart, le)

\* the MonoScript constructor
MonoScriptNew(b, le, info) ==
    LET className(base, r) == IF r.err THEN Thrown ELSE Ok(r.off, base.val)
        propertiesHash(base, r) ==
            IF r.err THEN Thrown ELSE className(base, readAlignedString(b, r.off, le))
        executionOrder(base, r) ==
            IF r.err THEN Thrown ELSE propertiesHash(base, readUInt8Slice(b, r.off, 16))
        super(base) ==
            IF base.err THEN Thrown ELSE executionOrder(base, readInt32(b, base.off, le))
    IN  super(AssetBaseNew(b, le, info))

\* the MonoBehaviour constructor
MonoBehaviourNew(b, le, info) ==
    LET name(r) == IF r.err THEN Thrown ELSE Ok(r.off, r.val)
        script(r) == IF r.err THEN Thrown ELSE name(readAlignedString(b, r.off, le))
        enabled(r) ==
            IF r.err THEN Thrown ELSE script(readPPtr(b, align4(r.off), le, info))
        gameobject(r) == IF r.err THEN Thrown ELSE enabled(readUInt8(b, r.off))
        super(base) ==
            IF base.err THEN Thrown
            ELSE gameobject(readPPtr(b, info.bytesStart, le, info))
    IN  super(AssetBaseNew(b, le, info))

\* createAssetObject(info): [err, made, obj]; made is FALSE for an unregistered class
createAssetObject(b, le, info) ==
    IF info.classId \notin classMap THEN [err |-> FALSE, made |-> FALSE, obj |-> <<>>]
    ELSE LET constructed(r) ==
                 IF r.err THEN [err |-> TRUE, made |-> FALSE, obj |-> <<>>]
                 ELSE [err |-> FALSE, made |-> TRUE,
                       obj |-> [type |-> info.classId, info |-> info, name |-> r.val,
                                reader |-> r.off]]
         IN  constructed(IF info.classId = AssetType.MonoScript
                         THEN MonoScriptNew(b, le, info)
                         ELSE IF info.classId = AssetType.MonoBehaviour
                              THEN MonoBehaviourNew(b, le, info)
                              ELSE AssetBaseNew(b, le, info))

\* this.objectInfos.map(createAssetObject).filter(o => o)
RECURSIVE mapCreateAssetObject(_, _, _, _)
mapCreateAssetObject(b, le, infos, objs) ==
    IF infos = <<>> THEN [err |-> FALSE, objs |-> objs]
    ELSE LET mapped(o) ==
                 IF o.err THEN [err |-> TRUE, objs |-> <<>>]
                 ELSE mapCreateAssetObject(b, le, Tail(infos),
                                           IF o.made THEN Append(objs, o.obj) ELSE objs)
         IN  mapped(createAssetObject(b, le, Head(infos)))

\* new Asset(f).objects()
AssetObjects(b) ==
    LET objectsOf(asset) ==
            IF asset.err THEN [err |-> TRUE, objs |-> <<>>]
            ELSE mapCreateAssetObject(b, asset.le, asset.objectInfos, <<>>)
    IN  objectsOf(Asset(b))

(***************************************************************************)
(* AssetBundle (bundle.ts): the header checks, decompressBuffer,           *)
(* readBlocksInfo, Buffer.concat and readFiles.                            *)
(***************************************************************************)
StorageBlockFlags == [COMPRESSION_TYPE_MASK |-> 63, STREAMED |-> 64]

ArchiveFlags ==
    [COMPRESSION_TYPE_MASK |-> 63, BLOCKS_AND_DIRECTORY_INFO_COMBINED |-> 64,
     BLOCKS_INFO_AT_THE_END |-> 128, OLD_WEB_PLUGIN_COMPATIBILITY |-> 256,
     BLOCK_INFO_NEED_PADDING_AT_START |-> 512]

CompressionType == [NONE |-> 0, LZMA |-> 1, LZ4 |-> 2, LZ4_HC |-> 3, LZHAM |-> 4]

\* flags & mask, for a mask that is one bit or a run of low bits
BitAnd(flags, mask) ==
    IF mask = 63 THEN flags % 64 ELSE ((flags \div mask) % 2) * mask

\* readHeader: if (header.version >= 7) throw
unsupportedVersion(version) == version >= 7

\* the mutant of unsupportedFlags: only BLOCKS_INFO_AT_THE_END is rejected
unsupportedFlagsAtTheEndOnly(flags) ==
    BitAnd(flags, ArchiveFlags.BLOCKS_INFO_AT_THE_END) # 0

\* readBlocksInfoAndDirectory: the flags the load rejects
unsupportedFlags(flags) ==
    \/ BitAnd(flags, ArchiveFlags.BLOCKS_INFO_AT_THE_END) # 0
    \/ BitAnd(flags, ArchiveFlags.BLOCK_INFO_NEED_PADDING_AT_START) # 0

\* flags & COMPRESSION_TYPE_MASK
compressionTypeOf(flags) == BitAnd(flags, StorageBlockFlags.COMPRESSION_TYPE_MASK)

\* sizeBuffer.writeUInt32LE(uncompressedSize)
writeUInt32LE(n) ==
    <<n % 256, (n \div 256) % 256, (n \div 65536) % 256, (n \div 16777216) % 256>>

\* the mutant of decompressBuffer: an unknown kind hands the input back
decompressBufferLenient(input, type, uncompressedSize, lz4) ==
    IF type \in {CompressionType.LZ4, CompressionType.LZ4_HC}
    THEN (IF uncompressedSize = 0 THEN [err |-> "size", val |-> <<>>]
          ELSE IF lz4.err THEN [err |-> "lz4", val |-> <<>>]
          ELSE [err |-> "none", val |-> lz4.val])
    ELSE [err |-> "none", val |-> input]

\* decompressBuffer(data, type, uncompressedSize); lz4 is what decompressLz4 does
\* with the size-prefixed input
decompressBuffer(input, type, uncompressedSize, lz4) ==
    IF type = CompressionType.NONE THEN [err |-> "none", val |-> input]
    ELSE IF type \in {CompressionType.LZ4, CompressionType.LZ4_HC}
    THEN (IF uncompressedSize = 0 THEN [err |-> "size", val |-> <<>>]
          ELSE IF lz4.err THEN [err |-> "lz4", val |-> <<>>]
          ELSE [err |-> "none", val |-> lz4.val])
    ELSE [err |-> "compression", val |-> <<>>]

\* the loop over blockInfoCount in readBlocksInfo
RECURSIVE readBlockInfos(_, _, _, _)
readBlockInfos(b, off, count, acc) ==
    IF Len(acc) >= count THEN [err |-> FALSE, off |-> off, val |-> acc]
    ELSE LET uncompressedSize == nextUInt32BE(b, off)
             compressedSize == nextUInt32BE(b, uncompressedSize.off)
             flags == nextUInt16BE(b, compressedSize.off)
         IN  IF uncompressedSize.err \/ compressedSize.err \/ flags.err
             THEN [err |-> TRUE, off |-> off, val |-> acc]
             ELSE readBlockInfos(b, flags.off, count,
                      Append(acc, [uncompressedSize |-> uncompressedSize.val,
                                   compressedSize |-> compressedSize.val,
                                   flags |-> flags.val]))

\* the loop over nodeCount in readBlocksInfo
RECURSIVE readNodes(_, _, _, _)
readNodes(b, off, count, acc) ==
    IF Len(acc) >= count THEN [err |-> FALSE, off |-> off, val |-> acc]
    ELSE LET offset == bufferReaderReadBigInt64BE(b, off)
             size == bufferReaderReadBigInt64BE(b, offset.off)
             flags == nextUInt32BE(b, size.off)
             path == nextStringZero(b, flags.off)
         IN  IF offset.err \/ size.err \/ flags.err \/ path.err
             THEN [err |-> TRUE, off |-> off, val |-> acc]
             ELSE readNodes(b, path.off, count,
                      Append(acc, [offset |-> offset.val, size |-> size.val,
                                   flags |-> flags.val, path |-> path.val]))

\* readBlocksInfo(blockInfo): [err, blockInfos, nodes] as pushed when it returns or throws
readBlocksInfo(blockInfo) ==
    LET start == brMove(blockInfo, 0, 16)
        blockInfoCount == nextInt32BE(blockInfo, start.off)
        blocks == readBlockInfos(blockInfo, blockInfoCount.off, blockInfoCount.val, <<>>)
        nodeCount == nextInt32BE(blockInfo, blocks.off)
        dir == readNodes(blockInfo, nodeCount.off, nodeCount.val, <<>>)
    IN  IF start.err \/ blockInfoCount.err
        THEN [err |-> TRUE, blockInfos |-> <<>>, nodes |-> <<>>]
        ELSE IF blocks.err \/ nodeCount.err
        THEN [err |-> TRUE, blockInfos |-> blocks.val, nodes |-> <<>>]
        ELSE [err |-> dir.err, blockInfos |-> blocks.val, nodes |-> dir.val]

\* the mutant of BufferConcat: the buffers are joined last to first
RECURSIVE BufferConcatReversed(_)
BufferConcatReversed(list) ==
    IF list = <<>> THEN <<>> ELSE BufferConcatReversed(Tail(list)) \o Head(list)

\* Buffer.concat(results)
RECURSIVE BufferConcat(_)
BufferConcat(list) ==
    IF list = <<>> THEN <<>> ELSE Head(list) \o BufferConcat(Tail(list))

\* readFiles(data): [err, files]
RECURSIVE readFilesFrom(_, _, _)
readFilesFrom(buf, rest, acc) ==
    IF rest = <<>> THEN [err |-> FALSE, files |-> acc]
    ELSE LET at == brSeek(buf, Head(rest).offset)
             file == nextBuffer(buf, at.off, Head(rest).size)
         IN  IF at.err \/ file.err THEN [err |-> TRUE, files |-> <<>>]
             ELSE readFilesFrom(buf, Tail(rest), Append(acc, file.val))

readFiles(buf, storageNodes) == readFilesFrom(buf, storageNodes, <<>>)

\* files.filter(f => getFileType(f) === FileType.ASSETS_FILE).flatMap(f => new Asset(f).objects())
RECURSIVE flatMapObjects(_, _)
flatMapObjects(assets, acc) ==
    IF assets = <<>> THEN [err |-> FALSE, objs |-> acc]
    ELSE LET mapped(o) ==
                 IF o.err THEN [err |-> TRUE, objs |-> <<>>]
                 ELSE flatMapObjects(Tail(assets), acc \o o.objs)
         IN  mapped(AssetObjects(Head(assets)))

collectObjects(fs) ==
    IF \E i \in 1..Len(fs) : getFileType(fs[i]) = "throw"
    THEN [err |-> "fileType", objs |-> <<>>]
    ELSE LET mapped(r) ==
                 IF r.err THEN [err |-> "asset", objs |-> <<>>]
                 ELSE [err |-> "none", objs |-> r.objs]
         IN  mapped(flatMapObjects(SelectSeq(fs, LAMBDA f : getFileType(f) = "ASSETS_FILE"),
                                   <<>>))

(***************************************************************************)
(* Specification SpecFileType: getFileType applied to one buffer.          *)
(* The buffers are prefixes of 52-byte images: a 4-byte head, the header   *)
(* fields the probe reads, and optionally the brotli magic at offset 32;   *)
(* or a container signature and its terminator; or bytes with no zero.     *)
(***************************************************************************)
\* the load is not running: no stream, no bundle
NoHeader ==
    [signature |-> <<>>, version |-> 0, unityVersion |-> <<>>, unityReversion |-> <<>>,
     size |-> 0, compressedBlocksInfoSize |-> 0, uncompressedBlocksInfoSize |-> 0,
     flags |-> 0]

LoadIdle ==
    /\ abPc = "start"
    /\ abOutstanding = 0
    /\ abReads = <<>>
    /\ abHeader = NoHeader
    /\ abBlockInfos = <<>>
    /\ abNodes = <<>>
    /\ abResults = <<>>
    /\ abDecompressed = <<>>
    /\ abData = <<>>
    /\ abFiles = <<>>
    /\ abAssetObjects = <<>>
    /\ abError = "none"
    /\ abListed = [called |-> FALSE, objs |-> <<>>]

\* no serialized file is being parsed on its own
AssetIdle ==
    /\ asFile = <<>>
    /\ asAsset = [made |-> FALSE, asset |-> <<>>]

BE32(n) == <<n \div 16777216, (n \div 65536) % 256, (n \div 256) % 256, n % 256>>

BE64(n) == <<0, 0, 0, 0>> \o BE32(n)

Take(b, n) == SubSeq(b, 1, IF n < Len(b) THEN n ELSE Len(b))

FtLens == {1, 2, 3, 4, 8, 19, 20, 37, 38, 47, 48, 52}

FtHeads == {<<0, 0, 0, 16>>, <<31, 139, 8, 0>>, <<80, 75, 3, 4>>, <<80, 75, 7, 8>>,
            <<65, 66, 67, 68>>}

FtImage(head, fileSize, version, dataOffset, brotli) ==
    head \o BE32(fileSize) \o BE32(version) \o BE32(dataOffset) \o Zeros(8)
         \o BE64(fileSize)
         \o (IF brotli THEN BROTLI_HEAD \o <<0, 0>> ELSE BE64(dataOffset))
         \o Zeros(12)

FtHeaderInputs ==
    {Take(FtImage(head, n + d, version, off, brotli), n) :
        head \in FtHeads, n \in FtLens, d \in {0, 1}, version \in {6, 22},
        off \in {0, 20, 53}, brotli \in BOOLEAN}

FtSignatureInputs ==
    {Take(sig \o <<0>> \o Zeros(44), n) :
        sig \in {UNITY_WEB, UNITY_RAW, UNITY_FS, UNITY_ARCHIVE, UNITY_WEB_DATA_1_0},
        n \in FtLens}

FtInputs == FtHeaderInputs \cup FtSignatureInputs

InitFileType ==
    /\ ftData \in FtInputs
    /\ ftResult = "pending"
    /\ ttFile = [buf |-> <<>>, le |-> TRUE, template |-> 0]
    /\ ttObjs = <<>>
    /\ ttInitial = [file |-> ttFile, objs |-> ttObjs]
    /\ ttCalls = <<>>
    /\ ttFirst = <<>>
    /\ ttLast = <<>>
    /\ LoadIdle
    /\ AssetIdle

Classify ==
    /\ ftResult = "pending"
    /\ ftResult' = getFileType(ftData)
    /\ UNCHANGED <<ftData, ttVars, abVars, asVars>>

NextFileType == Classify

SpecFileType == InitFileType /\ [][NextFileType]_vars

(***************************************************************************)
(* C6                                                                      *)
(***************************************************************************)
HasMagic(data, magic, start) ==
    /\ Len(data) >= start + Len(magic)
    /\ Slice(data, start, Len(magic)) = magic

HasSignature(data, sigs) ==
    \E sig \in sigs : Len(data) > Len(sig) /\ Take(data, Len(sig) + 1) = sig \o <<0>>

\* the kind the claim assigns: first match in the fixed priority, resource otherwise
C6_ClaimedKind(data) ==
    IF HasSignature(data, {UNITY_WEB, UNITY_RAW, UNITY_ARCHIVE, UNITY_FS}) THEN "BUNDLE_FILE"
    ELSE IF HasSignature(data, {UNITY_WEB_DATA_1_0}) THEN "WEB_FILE"
    ELSE IF HasMagic(data, GZIP_HEAD, 0) THEN "GZIP_FILE"
    ELSE IF HasMagic(data, BROTLI_HEAD, 32) THEN "BROTLI_FILE"
    ELSE IF isSerializedFile(data) THEN "ASSETS_FILE"
    ELSE IF HasMagic(data, ZIP_HEAD, 0) \/ HasMagic(data, ZIP_SPANNED_HEAD, 0) THEN "ZIP_FILE"
    ELSE "RESOURCE_FILE"

\* C6 (as claimed): getFileType assigns every buffer, however short, exactly the
\* kind of the first matching rule of the fixed priority, and a resource file
\* when no rule matches.
C6_EveryBufferClassified ==
    ftResult # "pending" => ftResult = C6_ClaimedKind(ftData)

\* C6 (what the code does): a buffer that holds a zero byte and at least 38
\* bytes gets the claimed kind; so does any buffer the code classifies at all.
C6_ClassifiedAsClaimed ==
    /\ (ftResult \notin {"pending", "throw"}) => ftResult = C6_ClaimedKind(ftData)
    /\ (ftResult # "pending" /\ Len(ftData) >= 38 /\ ZeroOffsets(ftData, 0) # {})
          => ftResult = C6_ClaimedKind(ftData)

C6_GzipBeatsSerialized ==
    /\ ftResult = "GZIP_FILE"
    /\ isSerializedFile(ftData)

C6_SerializedBeatsZip ==
    /\ ftResult = "ASSETS_FILE"
    /\ HasMagic(ftData, ZIP_HEAD, 0)

(***************************************************************************)
(* Specification SpecTypeTree: typeTree() called on the objects of one     *)
(* serialized file, in any order.  The file's payload is eight 32-bit      *)
(* little-endian words; the schemas are a palette of node lists, some of   *)
(* them not shaped like the schemas Unity writes.                          *)
(***************************************************************************)
MaxCalls == 2

N(level, typeStr, nameStr) == [level |-> level, typeStr |-> typeStr, nameStr |-> nameStr]

LE32(n) == <<n % 256, (n \div 256) % 256, (n \div 65536) % 256, n \div 16777216>>

SchemaLeaves ==
    <<N(0, "Obj", "Base"), N(1, "int", "m_A"), N(1, "UInt8", "m_B"), N(1, "SInt32", "m_C")>>
SchemaString ==
    <<N(0, "Obj", "Base"), N(1, "string", "m_Name"), N(2, "Array", "Array"),
      N(3, "int", "size"), N(3, "char", "data"), N(1, "int", "m_B")>>
SchemaRecord ==
    <<N(0, "Obj", "Base"), N(1, "Vec", "m_V"), N(2, "int", "x"), N(2, "int", "y"),
      N(1, "int", "m_B")>>
SchemaIntArray ==
    <<N(0, "Obj", "Base"), N(1, "vector", "m_Arr"), N(2, "Array", "Array"),
      N(3, "int", "size"), N(3, "int", "data"), N(1, "int", "m_B")>>
SchemaDeepArray ==
    <<N(0, "Obj", "Base"), N(1, "vector", "m_Arr"), N(2, "Array", "Array"),
      N(3, "int", "size"), N(3, "Pair", "data"), N(4, "int", "first"),
      N(4, "Vec", "second"), N(5, "int", "x"), N(1, "int", "m_B")>>
SchemaStringArray ==
    <<N(0, "Obj", "Base"), N(1, "vector", "m_Arr"), N(2, "Array", "Array"),
      N(3, "int", "size"), N(3, "string", "data"), N(4, "Array", "Array"),
      N(5, "int", "size"), N(5, "char", "data"), N(1, "int", "m_B")>>
SchemaNestedArray ==
    <<N(0, "Obj", "Base"), N(1, "vector", "m_Arr"), N(2, "Array", "Array"),
      N(3, "int", "size"), N(3, "vector", "data"), N(4, "Array", "Array"),
      N(5, "int", "size"), N(5, "int", "data"), N(1, "int", "m_B")>>
SchemaArrayInRecord ==
    <<N(0, "Obj", "Base"), N(1, "Rec", "m_R"), N(2, "vector", "m_Arr"),
      N(3, "Array", "Array"), N(4, "int", "size"), N(4, "int", "data"), N(1, "int", "m_B")>>
SchemaArrayLast ==
    <<N(0, "Obj", "Base"), N(1, "int", "m_A"), N(1, "vector", "m_Arr"),
      N(2, "Array", "Array"), N(3, "int", "size"), N(3, "int", "data")>>
SchemaBool ==
    <<N(0, "Obj", "Base"), N(1, "int", "m_A"), N(1, "bool", "m_Flag"), N(1, "int", "m_B")>>
SchemaEmpty == <<>>
\* not shaped like Unity's: a string without its descriptors, a string with one
\* descriptor, an Array descriptor with a sibling, a child two levels down
SchemaBareString ==
    <<N(0, "Obj", "Base"), N(1, "int", "m_A"), N(1, "string", "m_Name")>>
SchemaShortString ==
    <<N(0, "Obj", "Base"), N(1, "string", "m_Name"), N(2, "Array", "Array"),
      N(1, "int", "m_B"), N(1, "int", "m_C")>>
SchemaArraySibling ==
    <<N(0, "Obj", "Base"), N(1, "vector", "m_Arr"), N(2, "Array", "Array"),
      N(3, "int", "size"), N(3, "int", "data"), N(2, "int", "extra"), N(1, "int", "m_B")>>
SchemaLevelJump ==
    <<N(0, "Obj", "Base"), N(1, "Rec", "m_R"), N(3, "int", "x"), N(2, "int", "y"),
      N(1, "int", "m_B")>>

Schemas ==
    {SchemaLeaves, SchemaString, SchemaRecord, SchemaIntArray, SchemaDeepArray,
     SchemaStringArray, SchemaNestedArray, SchemaArrayInRecord, SchemaArrayLast,
     SchemaBool, SchemaEmpty, SchemaBareString, SchemaShortString, SchemaArraySibling,
     SchemaLevelJump}

Payloads ==
    {LE32(w1) \o LE32(w2) \o LE32(w3) \o LE32(1) \o LE32(2) \o LE32(0) \o LE32(1) \o LE32(0) :
        w1 \in 0..2, w2 \in 0..2, w3 \in 0..2}

\* new AssetBase(info, info.getReader()): r.seek(bytesStart); r.readAlignedString()
\* leaves the object's reader after its name
AssetBaseReader(b, le, bytesStart) == readAlignedString(b, bytesStart, le)

NoRun == [threw |-> FALSE, result |-> Undefined, log |-> <<>>,
          index0 |-> 0, pos0 |-> 0, pos |-> 0]

InitTypeTree ==
    /\ \E buf \in Payloads, t1 \in Schemas, t2 \in {SchemaLeaves, SchemaIntArray},
          s2 \in {4, 8} :
          /\ ~AssetBaseReader(buf, TRUE, 0).err
          /\ ~AssetBaseReader(buf, TRUE, s2).err
          /\ ttFile = [buf |-> buf, le |-> TRUE, template |-> 0]
          /\ ttObjs = <<[bytesStart |-> 0, tree |-> t1,
                         reader |-> AssetBaseReader(buf, TRUE, 0).off],
                        [bytesStart |-> s2, tree |-> t2,
                         reader |-> AssetBaseReader(buf, TRUE, s2).off]>>
    /\ ttInitial = [file |-> ttFile, objs |-> ttObjs]
    /\ ttCalls = <<0, 0>>
    /\ ttFirst = <<NoRun, NoRun>>
    /\ ttLast = <<NoRun, NoRun>>
    /\ ftData = <<>>
    /\ ftResult = "pending"
    /\ LoadIdle
    /\ AssetIdle

\* one call of typeTree() on object o
TypeTree(o) ==
    /\ ttCalls[o] < MaxCalls
    /\ LET returned(r) ==
               /\ ttObjs' = [ttObjs EXCEPT ![o].reader = r.reader]
               /\ ttLast' = [ttLast EXCEPT ![o] = r.run]
               /\ ttFirst' = IF ttCalls[o] = 0 THEN [ttFirst EXCEPT ![o] = r.run]
                             ELSE ttFirst
       IN  returned(typeTree(ttFile.buf, ttFile.le, ttObjs[o], ttObjs[o].reader))
    /\ ttCalls' = [ttCalls EXCEPT ![o] = @ + 1]
    /\ UNCHANGED <<ttFile, ttInitial, ftVars, abVars, asVars>>

NextTypeTree == \E o \in 1..2 : TypeTree(o)

SpecTypeTree == InitTypeTree /\ [][NextTypeTree]_vars

FirstAtOrAbove(nodes, i, level) ==
    LET stops == {j \in (i + 1)..(Len(nodes) - 1) : nodes[j + 1].level <= level}
    IN  IF stops = {} THEN Len(nodes) ELSE Least(stops)

\* the fields decoded by the latest call on object o, one log entry each
FieldsDecoded(o) == {ttLast[o].log[k] : k \in 1..Len(ttLast[o].log)}

CursorAfterEveryField(o) ==
    \A ev \in FieldsDecoded(o) :
        ev.after = FirstAtOrAbove(ttObjs[o].tree, ev.i, ev.level)

\* a schema shaped as Unity writes them: a pre-order tree whose levels grow by at
\* most one; a string node has exactly three descendants; an array field has one
\* child, the Array node, whose children are the size leaf and the element node
WellFormed(nodes) ==
    /\ \A k \in 1..(Len(nodes) - 1) : nodes[k + 1].level <= nodes[k].level + 1
    /\ \A i \in 0..(Len(nodes) - 1) :
          LET node == nodes[i + 1]
              end == FirstAtOrAbove(nodes, i, node.level)
          IN  /\ node.typeStr = "string" => end - i - 1 = 3
              /\ (/\ node.typeStr # "string"
                  /\ i + 1 < Len(nodes)
                  /\ nodes[i + 2].level > node.level
                  /\ nodes[i + 2].typeStr = "Array")
                 => /\ i + 3 < end
                    /\ nodes[i + 3].level = node.level + 2
                    /\ nodes[i + 4].level = node.level + 2
                    /\ \A k \in (i + 4)..(end - 1) : nodes[k + 1].level > node.level + 2

\* C9 (as claimed): whatever the schema, decoding the field at node i of level L
\* leaves the node cursor at the first node after i whose level is <= L, or at
\* the end of the node list.
C9_CursorPastDescendants ==
    \A o \in 1..2 : CursorAfterEveryField(o)

\* C9 (amended): the same, for a schema that is well formed.
C9_CursorPastDescendantsWellFormed ==
    \A o \in 1..2 : WellFormed(ttObjs[o].tree) => CursorAfterEveryField(o)

\* a well-formed schema decoded without error in which an array with a nonzero
\* count, an array with a zero count and a leaf were decoded
C9_Witness ==
    /\ WellFormed(ttObjs[1].tree)
    /\ ttCalls[1] >= 1
    /\ ~ttLast[1].threw
    /\ \E a, z, f \in FieldsDecoded(1) :
          /\ a.kind = "array" /\ a.count > 0
          /\ z.kind = "array" /\ z.count = 0
          /\ f.kind = "leaf" /\ f.level = 1

\* C10: an array field whose encoded count is 0 yields an empty sequence, reads
\* the 4 bytes of the count and nothing more, and leaves the node cursor at the
\* first following node whose level is <= the array field's level.
C10_ZeroLengthArray ==
    \A o \in 1..2 : \A ev \in FieldsDecoded(o) :
        (ev.kind = "array" /\ ev.count = 0) =>
            /\ ev.value = Val("arr", <<>>)
            /\ ev.to = ev.from + 4
            /\ ev.after = FirstAtOrAbove(ttObjs[o].tree, ev.i, ev.level)

\* a zero-length array whose element subtree is four nodes deep was decoded
C10_Witness ==
    /\ ttCalls[1] >= 1
    /\ ~ttLast[1].threw
    /\ \E ev \in FieldsDecoded(1) :
          /\ ev.kind = "array" /\ ev.count = 0
          /\ ev.after - ev.i >= 7
          /\ ttObjs[1].tree[ev.after].level = ev.level + 4

(***************************************************************************)
(* C11                                                                     *)
(***************************************************************************)
\* the length prefix of the string that starts at byte offset from
StringLength(from) == I32LE(ttFile.buf, from)

\* log entry k of object o is a string field decoded as the claim says: one
\* length-prefixed read from its offset, the reader left on the next multiple of
\* 4, the cursor 3 nodes beyond the node after the string node
StringFieldDecoded(o, k) ==
    LET ev == ttLast[o].log[k]
        n == StringLength(ev.from)
    IN  /\ ev.value = Val("str", Slice(ttFile.buf, ev.from + 4, n))
        /\ ev.to % 4 = 0
        /\ ev.to >= ev.from + 4 + n
        /\ ev.to < ev.from + 4 + n + 4
        /\ ev.after = ev.i + 4

\* the node after the three descriptors of the string node at i is an integer
\* field of the string's level
IntegerFollows(nodes, i) ==
    /\ i + 4 < Len(nodes)
    /\ nodes[i + 5].level = nodes[i + 1].level
    /\ nodes[i + 5].typeStr \in {"int", "SInt32"}

\* log entry k + 1 of object o is that integer, decoded from the byte offset the
\* string at entry k ended at
IntegerDecodedNext(o, k) ==
    LET ev == ttLast[o].log[k]
        log == ttLast[o].log
    IN  /\ k < Len(log)
        /\ log[k + 1].i = ev.i + 4
        /\ log[k + 1].kind = "leaf"
        /\ log[k + 1].from = ev.to
        /\ log[k + 1].to = ev.to + 4
        /\ log[k + 1].value = Val("int", I32LE(ttFile.buf, ev.to))

\* C11: a decoded string field is one length-prefixed read followed by 4-byte
\* alignment and moves the node cursor 3 nodes beyond the string node; when an
\* integer field of the string's level follows the three descriptors and the
\* call returns, that integer is the next field decoded, from the byte offset
\* right after the aligned string; and no entry of the log is one of the three
\* nodes after a decoded string node.
C11_StringFieldSkip ==
    \A o \in 1..2 : \A k \in 1..Len(ttLast[o].log) :
        ttObjs[o].tree[ttLast[o].log[k].i + 1].typeStr = "string" =>
            /\ ttLast[o].log[k].kind = "string"
            /\ StringFieldDecoded(o, k)
            /\ (IntegerFollows(ttObjs[o].tree, ttLast[o].log[k].i) /\ ~ttLast[o].threw)
                  => IntegerDecodedNext(o, k)
            /\ \A ev \in FieldsDecoded(o) :
                  ev.i \notin (ttLast[o].log[k].i + 1)..(ttLast[o].log[k].i + 3)

\* a record with a string field of one or two characters, so that the
\* alignment moves the reader, followed by an integer field that was decoded
C11_Witness ==
    /\ ttCalls[1] >= 1
    /\ ~ttLast[1].threw
    /\ WellFormed(ttObjs[1].tree)
    /\ \E k \in 1..Len(ttLast[1].log) :
          /\ ttLast[1].log[k].kind = "string"
          /\ ttLast[1].log[k].level = 1
          /\ StringLength(ttLast[1].log[k].from) \in {1, 2}
          /\ ttLast[1].log[k].to > ttLast[1].log[k].from + 4
                                     + StringLength(ttLast[1].log[k].from)
          /\ IntegerFollows(ttObjs[1].tree, ttLast[1].log[k].i)
          /\ IntegerDecodedNext(1, k)


(***************************************************************************)
(* Specification Spec: AssetBundle.load against a byte source.  Every      *)
(* action is the code that runs when one await of load resumes, up to the  *)
(* next await; what the source delivers is chosen when the read completes. *)
(***************************************************************************)
MaxBlocks == 2
MaxNodes == 2

BE16(n) == <<n \div 256, n % 256>>
LE16(n) == <<n % 256, n \div 256>>

RECURSIVE Join(_)
Join(list) == IF list = <<>> THEN <<>> ELSE Head(list) \o Join(Tail(list))

SeqsUpTo(S, n) == UNION {[1..k -> S] : k \in 0..n}

\* a length-prefixed string padded to four bytes, as readAlignedString reads it
AlignedText(chars) == LE32(Len(chars)) \o chars \o Zeros((4 - (Len(chars) % 4)) % 4)

\* one object directory entry of a version 9 serialized file
Entry(pathId, bytesStart, typeId, classId) ==
    LE32(pathId) \o LE32(bytesStart) \o LE32(8) \o LE32(typeId) \o LE16(classId) \o <<0, 0>>

\* a little-endian version 9 serialized file of 120 bytes with one type, the given
\* object directory and the given object data
SerializedFile(entries, payload) ==
    LET fileSize == 120
        metadataSize == 43 + 20 * Len(entries)
        dataOffset == align4(metadataSize)
        image == BE32(metadataSize) \o BE32(fileSize) \o BE32(9) \o BE32(dataOffset)
                     \o <<0, 0, 0, 0>> \o <<53, 97, 0>> \o LE32(5)
                     \o LE32(1) \o LE32(49) \o LE32(0)
                     \o LE32(Len(entries)) \o Join(entries)
                     \o Zeros(dataOffset - metadataSize) \o payload
    IN  Take(image \o Zeros(fileSize), fileSize)

\* TextAsset "a", an object of an unregistered class, TextAsset "b"
GoodFileA ==
    SerializedFile(<<Entry(1, 0, 0, 49), Entry(2, 0, 0, 1), Entry(3, 8, 0, 49)>>,
                   AlignedText(<<97>>) \o AlignedText(<<98>>))

\* MonoScript "c"
GoodFileB ==
    SerializedFile(<<Entry(4, 0, 0, 115)>>,
                   AlignedText(<<99>>) \o LE32(0) \o Zeros(16) \o AlignedText(<<100>>))

\* MonoBehaviour "e", then a TextAsset whose name runs past the end of the file
TruncatedFile ==
    SerializedFile(<<Entry(5, 0, 0, 114), Entry(6, 32, 0, 49)>>,
                   LE32(0) \o LE32(0) \o <<1, 0, 0, 0>> \o LE32(0) \o LE32(0)
                       \o AlignedText(<<101>>) \o Zeros(4) \o LE32(9))

FileImages == {GoodFileA, GoodFileB, TruncatedFile}

FileLen == Len(GoodFileA)

BlockOptions ==
    {[uncompressedSize |-> FileLen, compressedSize |-> FileLen, flags |-> 64],
     [uncompressedSize |-> FileLen, compressedSize |-> FileLen, flags |-> 2],
     [uncompressedSize |-> FileLen, compressedSize |-> FileLen, flags |-> 1]}

NodeOptions ==
    {[offset |-> 0, size |-> FileLen], [offset |-> FileLen, size |-> FileLen],
     [offset |-> 0, size |-> 40]}

\* the blocks info and directory as readBlocksInfo parses it
MetadataImage(blocks, dir) ==
    Zeros(16)
      \o BE32(Len(blocks))
      \o Join([i \in 1..Len(blocks) |->
                  BE32(blocks[i].uncompressedSize) \o BE32(blocks[i].compressedSize)
                      \o BE16(blocks[i].flags)])
      \o BE32(Len(dir))
      \o Join([i \in 1..Len(dir) |->
                  BE64(dir[i].offset) \o BE64(dir[i].size) \o BE32(4) \o <<97, 0>>])

\* a blocks info cut off after its block count
CutMetadata == Zeros(16) \o BE32(1)

MetadataImages ==
    {MetadataImage(bs, ns) : bs \in SeqsUpTo(BlockOptions, MaxBlocks),
                             ns \in SeqsUpTo(NodeOptions, MaxNodes)}
        \cup {CutMetadata}

Signatures == {UNITY_FS, UNITY_WEB, UNITY_RAW, UNITY_ARCHIVE, <<>>}
Versions == {6, 7}
UnityVersions == {<<53, 46, 120, 46, 120>>}
UnityReversions == {<<50, 48, 49, 56, 46, 52>>}
Sizes == {0}
InfoSizes == {Len(m) : m \in MetadataImages}
FlagWords == 0..63 \cup {65, 128, 512, 640}

\* the plain buffers of n bytes: blocks infos, or file images
PlainBuffers(what, n) ==
    {b \in (IF what = "metadata" THEN MetadataImages ELSE FileImages) : Len(b) = n}

\* n bytes of LZ4 output, opaque to everything but the decompressor
Packed(n) == [k \in 1..n |-> 255]

\* what the source can deliver for readBuffer(n) when the bytes are of the given kind
SourceBuffers(what, n, type) ==
    IF type \in {CompressionType.LZ4, CompressionType.LZ4_HC} THEN {Packed(n)}
    ELSE PlainBuffers(what, n)

\* uncompress of lz4-napi on a size-prefixed input: it fails, or yields a buffer of
\* the declared size
decompressLz4(what, input) ==
    {[err |-> TRUE, val |-> <<>>]}
        \cup {[err |-> FALSE, val |-> b] : b \in PlainBuffers(what, U32LE(input, 0))}

\* the outcomes of the decompressLz4 call decompressBuffer makes, if it makes one
lz4Outcomes(what, input, type, uncompressedSize) ==
    IF type \in {CompressionType.LZ4, CompressionType.LZ4_HC} /\ uncompressedSize # 0
    THEN decompressLz4(what, writeUInt32LE(uncompressedSize) \o input)
    ELSE {[err |-> TRUE, val |-> <<>>]}

Init ==
    /\ LoadIdle
    /\ AssetIdle
    /\ ftData = <<>>
    /\ ftResult = "pending"
    /\ ttFile = [buf |-> <<>>, le |-> TRUE, template |-> 0]
    /\ ttObjs = <<>>
    /\ ttInitial = [file |-> ttFile, objs |-> ttObjs]
    /\ ttCalls = <<>>
    /\ ttFirst = <<>>
    /\ ttLast = <<>>

\* the resumed code ends in the next read of the source
Await(what, n) ==
    /\ abPc' = what
    /\ abReads' = Append(abReads, [what |-> what, n |-> n])
    /\ abOutstanding' = (abOutstanding - 1) + 1
    /\ abError' = abError

\* the resumed code throws: load rejects
Reject(why) ==
    /\ abPc' = "failed"
    /\ abError' = why
    /\ abOutstanding' = abOutstanding - 1
    /\ abReads' = abReads

\* the resumed code goes on without a read
Goto(where) ==
    /\ abPc' = where
    /\ abError' = abError
    /\ abOutstanding' = abOutstanding - 1
    /\ abReads' = abReads

\* AssetBundle.load(data): new AsyncBinaryStream(data), s.readNullTerminatingString()
load ==
    /\ abPc = "start"
    /\ abPc' = "signature"
    /\ abReads' = Append(abReads, [what |-> "signature", n |-> 0])
    /\ abOutstanding' = abOutstanding + 1
    /\ UNCHANGED <<abHeader, abBlockInfos, abNodes, abResults, abDecompressed, abData,
                   abFiles, abAssetObjects, abError, abListed, ftVars, ttVars, asVars>>

load_signature ==
    /\ abPc = "signature"
    /\ \E v \in Signatures : abHeader' = [abHeader EXCEPT !.signature = v]
    /\ Await("version", 0)
    /\ UNCHANGED <<abBlockInfos, abNodes, abResults, abDecompressed, abData, abFiles,
                   abAssetObjects, abListed, ftVars, ttVars, asVars>>

load_version ==
    /\ abPc = "version"
    /\ \E v \in Versions : abHeader' = [abHeader EXCEPT !.version = v]
    /\ Await("unityVersion", 0)
    /\ UNCHANGED <<abBlockInfos, abNodes, abResults, abDecompressed, abData, abFiles,
                   abAssetObjects, abListed, ftVars, ttVars, asVars>>

load_unityVersion ==
    /\ abPc = "unityVersion"
    /\ \E v \in UnityVersions : abHeader' = [abHeader EXCEPT !.unityVersion = v]
    /\ Await("unityReversion", 0)
    /\ UNCHANGED <<abBlockInfos, abNodes, abResults, abDecompressed, abData, abFiles,
                   abAssetObjects, abListed, ftVars, ttVars, asVars>>

\* new AssetBundle(header); bundle.read(s): the switch on the signature, readHeader
load_unityReversion ==
    /\ abPc = "unityReversion"
    /\ \E v \in UnityReversions : abHeader' = [abHeader EXCEPT !.unityReversion = v]
    /\ IF abHeader.signature # UNITY_FS THEN Reject("signature")
       ELSE IF unsupportedVersion(abHeader.version) THEN Reject("version")
       ELSE Await("size", 0)
    /\ UNCHANGED <<abBlockInfos, abNodes, abResults, abDecompressed, abData, abFiles,
                   abAssetObjects, abListed, ftVars, ttVars, asVars>>

readHeader_size ==
    /\ abPc = "size"
    /\ \E v \in Sizes : abHeader' = [abHeader EXCEPT !.size = v]
    /\ Await("compressedBlocksInfoSize", 0)
    /\ UNCHANGED <<abBlockInfos, abNodes, abResults, abDecompressed, abData, abFiles,
                   abAssetObjects, abListed, ftVars, ttVars, asVars>>

readHeader_compressedBlocksInfoSize ==
    /\ abPc = "compressedBlocksInfoSize"
    /\ \E v \in InfoSizes : abHeader' = [abHeader EXCEPT !.compressedBlocksInfoSize = v]
    /\ Await("uncompressedBlocksInfoSize", 0)
    /\ UNCHANGED <<abBlockInfos, abNodes, abResults, abDecompressed, abData, abFiles,
                   abAssetObjects, abListed, ftVars, ttVars, asVars>>

readHeader_uncompressedBlocksInfoSize ==
    /\ abPc = "uncompressedBlocksInfoSize"
    /\ \E v \in {0, abHeader.compressedBlocksInfoSize} :
          abHeader' = [abHeader EXCEPT !.uncompressedBlocksInfoSize = v]
    /\ Await("flags", 0)
    /\ UNCHANGED <<abBlockInfos, abNodes, abResults, abDecompressed, abData, abFiles,
                   abAssetObjects, abListed, ftVars, ttVars, asVars>>

\* the end of readHeader, and readBlocksInfoAndDirectory up to s.readBuffer
readHeader_flags ==
    /\ abPc = "flags"
    /\ \E v \in FlagWords :
          /\ abHeader' = [abHeader EXCEPT !.flags = v]
          /\ IF unsupportedFlags(v) THEN Reject("flags")
             ELSE Await("metadata", abHeader.compressedBlocksInfoSize)
    /\ UNCHANGED <<abBlockInfos, abNodes, abResults, abDecompressed, abData, abFiles,
                   abAssetObjects, abListed, ftVars, ttVars, asVars>>

\* the decompressBuffer call as the log keeps it
Call(what, type, size, input, d) ==
    [what |-> what, type |-> type, size |-> size, threw |-> d.err # "none",
     unchanged |-> d.err = "none" /\ d.val = input]

\* readBlocksInfoAndDirectory from the metadata bytes on, and readBlocks up to its
\* first s.readBuffer
readBlocksInfoAndDirectory_blockInfoBuffer ==
    /\ abPc = "metadata"
    /\ LET type == compressionTypeOf(abHeader.flags)
           size == abHeader.uncompressedBlocksInfoSize
       IN  \E blockInfoBuffer \in SourceBuffers("metadata", abHeader.compressedBlocksInfoSize, type) :
           \E lz4 \in lz4Outcomes("metadata", blockInfoBuffer, type, size) :
              LET d == decompressBuffer(blockInfoBuffer, type, size, lz4)
                  info == readBlocksInfo(d.val)
              IN  /\ abDecompressed' =
                        Append(abDecompressed, Call("metadata", type, size, blockInfoBuffer, d))
                  /\ IF d.err # "none"
                     THEN Reject(d.err) /\ UNCHANGED <<abBlockInfos, abNodes>>
                     ELSE /\ abBlockInfos' = info.blockInfos
                          /\ abNodes' = info.nodes
                          /\ IF info.err THEN Reject("blocksInfo")
                             ELSE IF info.blockInfos = <<>> THEN Goto("blocksRead")
                             ELSE Await("block", info.blockInfos[1].compressedSize)
    /\ UNCHANGED <<abHeader, abResults, abData, abFiles, abAssetObjects, abListed,
                   ftVars, ttVars, asVars>>

\* one turn of the loop of readBlocks, from the block's bytes to the next s.readBuffer
readBlocks_compressedBuffer ==
    /\ abPc = "block"
    /\ LET i == Len(abResults) + 1
           type == compressionTypeOf(abBlockInfos[i].flags)
           size == abBlockInfos[i].uncompressedSize
       IN  \E compressedBuffer \in SourceBuffers("block", abBlockInfos[i].compressedSize, type) :
           \E lz4 \in lz4Outcomes("block", compressedBuffer, type, size) :
              LET d == decompressBuffer(compressedBuffer, type, size, lz4)
              IN  /\ abDecompressed' =
                        Append(abDecompressed, Call("block", type, size, compressedBuffer, d))
                  /\ IF d.err # "none"
                     THEN Reject(d.err) /\ UNCHANGED abResults
                     ELSE /\ abResults' = Append(abResults, d.val)
                          /\ IF i = Len(abBlockInfos) THEN Goto("blocksRead")
                             ELSE Await("block", abBlockInfos[i + 1].compressedSize)
    /\ UNCHANGED <<abHeader, abBlockInfos, abNodes, abData, abFiles, abAssetObjects,
                   abListed, ftVars, ttVars, asVars>>

\* the rest of read(): Buffer.concat, readFiles, the filter and the flatMap; load returns
read_files ==
    /\ abPc = "blocksRead"
    /\ abData' = BufferConcat(abResults)
    /\ LET sliced == readFiles(abData', abNodes)
           made == collectObjects(sliced.files)
       IN  /\ abFiles' = sliced.files
           /\ abAssetObjects' = IF sliced.err THEN abAssetObjects ELSE made.objs
           /\ abPc' = IF sliced.err \/ made.err # "none" THEN "failed" ELSE "done"
           /\ abError' = IF sliced.err THEN "slice" ELSE made.err
    /\ UNCHANGED <<abOutstanding, abReads, abHeader, abBlockInfos, abNodes, abResults,
                   abDecompressed, abListed, ftVars, ttVars, asVars>>

\* bundle.objects() on the bundle load returned
objects ==
    /\ abPc = "done"
    /\ abListed' = [called |-> TRUE, objs |-> abAssetObjects]
    /\ UNCHANGED <<abPc, abOutstanding, abReads, abHeader, abBlockInfos, abNodes, abResults,
                   abDecompressed, abData, abFiles, abAssetObjects, abError, ftVars, ttVars, asVars>>

AwaitStates ==
    {"signature", "version", "unityVersion", "unityReversion", "size",
     "compressedBlocksInfoSize", "uncompressedBlocksInfoSize", "flags", "metadata", "block"}

\* the outstanding read fails (the source errors or ends early): load rejects
sourceError ==
    /\ abPc \in AwaitStates
    /\ abPc' = "failed"
    /\ abError' = "source"
    /\ abOutstanding' = abOutstanding - 1
    /\ UNCHANGED <<abReads, abHeader, abBlockInfos, abNodes, abResults, abDecompressed,
                   abData, abFiles, abAssetObjects, abListed, ftVars, ttVars, asVars>>

Next ==
    \/ load
    \/ load_signature
    \/ load_version
    \/ load_unityVersion
    \/ load_unityReversion
    \/ readHeader_size
    \/ readHeader_compressedBlocksInfoSize
    \/ readHeader_uncompressedBlocksInfoSize
    \/ readHeader_flags
    \/ readBlocksInfoAndDirectory_blockInfoBuffer
    \/ readBlocks_compressedBuffer
    \/ read_files
    \/ objects
    \/ sourceError

Spec == Init /\ [][Next]_vars

(***************************************************************************)
(* C1                                                                      *)
(***************************************************************************)
HeaderOrder ==
    <<"signature", "version", "unityVersion", "unityReversion", "size",
      "compressedBlocksInfoSize", "uncompressedBlocksInfoSize", "flags">>

\* read() has looked at the signature and the version: the bundle exists, so the
\* last string of the header has been stored
Dispatched == abHeader.unityReversion # <<>>

UnsupportedHeaderSeen ==
    \/ Dispatched /\ abHeader.signature # <<85, 110, 105, 116, 121, 70, 83>>
    \/ Dispatched /\ abHeader.version >= 7
    \/ (abHeader.flags \div 128) % 2 = 1
    \/ (abHeader.flags \div 512) % 2 = 1

NothingBeyondHeaderRead ==
    /\ \A k \in 1..Len(abReads) : abReads[k].what \notin {"metadata", "block"}
    /\ abDecompressed = <<>>
    /\ abBlockInfos = <<>>
    /\ abResults = <<>>

NoObjectListExposed ==
    /\ abPc # "done"
    /\ abAssetObjects = <<>>
    /\ ~abListed.called

\* C1: once load has seen a signature other than UnityFS, a format version of 7 or
\* more, or a flag word with bit 0x80 or bit 0x200, the load has failed, no read of
\* the metadata or of a block was ever issued, and no object list is exposed.
C1_UnsupportedHeaderRejected ==
    UnsupportedHeaderSeen =>
        /\ abPc = "failed"
        /\ abError \in {"signature", "version", "flags"}
        /\ NothingBeyondHeaderRead
        /\ NoObjectListExposed

\* a UnityFS version 6 header whose flag word has only the padding bit is rejected
C1_Witness ==
    /\ abPc = "failed"
    /\ abError = "flags"
    /\ abHeader.flags = 512
    /\ Len(abReads) = 8

(***************************************************************************)
(* C2                                                                      *)
(***************************************************************************)
\* the number of block reads issued so far
BlockReads == IF Len(abReads) > 9 THEN Len(abReads) - 9 ELSE 0

\* the bytes of the pushed blocks that come before block i
RECURSIVE LengthBefore(_)
LengthBefore(i) == IF i <= 1 THEN 0 ELSE LengthBefore(i - 1) + Len(abResults[i - 1])

ReadsInOrder ==
    \A k \in 1..Len(abReads) :
        /\ k <= 8 => abReads[k].what = HeaderOrder[k]
        /\ k = 9 => /\ abReads[k].what = "metadata"
                    /\ abReads[k].n = abHeader.compressedBlocksInfoSize
        /\ k > 9 => /\ abReads[k].what = "block"
                    /\ k - 9 <= Len(abBlockInfos)
                    /\ abReads[k].n = abBlockInfos[k - 9].compressedSize

BlocksInOrder ==
    /\ Len(abResults) <= BlockReads
    /\ BlockReads <= Len(abResults) + 1
    /\ Len(abResults) <= Len(abBlockInfos)
    /\ \A i \in 1..Len(abResults) :
          /\ abDecompressed[i + 1].what = "block"
          /\ abDecompressed[i + 1].type = abBlockInfos[i].flags % 64
          /\ abDecompressed[i + 1].size = abBlockInfos[i].uncompressedSize
          /\ ~abDecompressed[i + 1].threw

BufferSliced == abPc = "done" \/ abError \in {"slice", "fileType", "asset"}

\* C2: at most one read is outstanding; the reads are the eight header fields, then
\* the metadata with its compressed size, then the blocks in listed order with
\* their compressed sizes; a block is read only when every earlier block has been
\* decompressed with its own kind and size and pushed; the buffer is sliced only
\* after the last block, and it is the pushed blocks laid end to end in order.
C2_SequentialOrderedReads ==
    /\ abOutstanding \in 0..1
    /\ abPc \in AwaitStates <=> abOutstanding = 1
    /\ ReadsInOrder
    /\ BlocksInOrder
    /\ ~BufferSliced => abData = <<>> /\ abFiles = <<>>
    /\ BufferSliced =>
          /\ Len(abResults) = Len(abBlockInfos)
          /\ Len(abData) = LengthBefore(Len(abResults) + 1)
          /\ \A i \in 1..Len(abResults) :
                SubSeq(abData, LengthBefore(i) + 1, LengthBefore(i + 1)) = abResults[i]

\* two blocks of different kinds and different contents were read and joined
C2_Witness ==
    /\ abPc = "done"
    /\ Len(abResults) = 2
    /\ abResults[1] # abResults[2]
    /\ abDecompressed[2].type = 2
    /\ abDecompressed[3].type = 0
    /\ Len(abReads) = 11

(***************************************************************************)
(* C3                                                                      *)
(***************************************************************************)
InRange(node) ==
    /\ node.offset >= 0
    /\ node.size >= 0
    /\ node.offset + node.size <= Len(abData)

\* C3: when readFiles returned, every node lies inside the buffer and file i is
\* exactly the bytes [offset, offset + size) of the buffer, in node order; when
\* some node does not lie inside the buffer there are no files at all.
C3_FilesAreExactSlices ==
    BufferSliced =>
        IF \A i \in 1..Len(abNodes) : InRange(abNodes[i])
        THEN /\ abError # "slice"
             /\ Len(abFiles) = Len(abNodes)
             /\ \A i \in 1..Len(abNodes) :
                   /\ Len(abFiles[i]) = abNodes[i].size
                   /\ abFiles[i] = SubSeq(abData, abNodes[i].offset + 1,
                                          abNodes[i].offset + abNodes[i].size)
        ELSE /\ abError = "slice"
             /\ abPc = "failed"
             /\ abFiles = <<>>
             /\ abAssetObjects = <<>>

\* two files were cut out of a two-block buffer, the first one from the second block
C3_Witness ==
    /\ abPc = "done"
    /\ Len(abFiles) = 2
    /\ abNodes[1].offset = FileLen
    /\ abNodes[2].size = 40
    /\ abFiles[1] = abResults[2]

\* a node reaching past the end of the buffer made the load fail
C3_OutOfRangeWitness ==
    /\ abError = "slice"
    /\ Len(abResults) = 1
    /\ Len(abNodes) = 2

(***************************************************************************)
(* C4                                                                      *)
(***************************************************************************)
Decodable(f) == getFileType(f) = "ASSETS_FILE" /\ ~AssetObjects(f).err

\* C4: once the files are cut out, the objects of every file that decodes on its
\* own are in the exposed list, whatever happens to the other files.
C4_SiblingsSurvive ==
    (BufferSliced /\ abError # "slice") =>
        \A j \in 1..Len(abFiles) :
            Decodable(abFiles[j]) =>
                /\ abPc = "done"
                /\ \A o \in 1..Len(AssetObjects(abFiles[j]).objs) :
                      \E k \in 1..Len(abAssetObjects) :
                          abAssetObjects[k] = AssetObjects(abFiles[j]).objs[o]

(***************************************************************************)
(* C5                                                                      *)
(***************************************************************************)
Registry == {49, 28, 213, 687078895, 142, 114, 115}

\* the directory entries of file f that the registry decodes, as <<path id, class id>>
RegisteredEntries(f) ==
    LET kept == SelectSeq(Asset(f).objectInfos, LAMBDA e : e.classId \in Registry)
    IN  [k \in 1..Len(kept) |-> <<kept[k].pathId, kept[k].classId>>]

ExpectedEntries ==
    Join([i \in 1..Len(abFiles) |->
             IF getFileType(abFiles[i]) = "ASSETS_FILE" THEN RegisteredEntries(abFiles[i])
             ELSE <<>>])

C7_CompressionKindsHandled ==
    \A k \in 1..Len(abDecompressed) :
        LET c == abDecompressed[k]
        IN  /\ c.type = 0 => ~c.threw /\ c.unchanged
            /\ (c.type \in {2, 3} /\ c.size = 0) => c.threw
            /\ c.type \notin {0, 2, 3} => c.threw
            /\ c.threw => /\ k = Len(abDecompressed)
                          /\ abPc = "failed"
                          /\ abError \in {"compression", "size", "lz4"}
                          /\ NoObjectListExposed

\* an LZMA block after a good block made the load fail
C7_Witness ==
    /\ abPc = "failed"
    /\ abError = "compression"
    /\ Len(abResults) = 1
    /\ abDecompressed[Len(abDecompressed)].type = 1

(***************************************************************************)
(* Specification SpecAsset: new Asset(data) applied to one serialized file. *)
(* The files are written by the format's rules for header versions 6 to 22, *)
(* little-endian, with one type and two object directory entries; how the   *)
(* path ids are written (32 or 64 bits, with or without padding to a        *)
(* multiple of 4 before them) is chosen freely, and a file may be cut short.*)
(***************************************************************************)
AssetVersions == {6, 7, 8, 9, 10, 11, 12, 13, 14, 15, 16, 17, 19, 21, 22}

\* "5a" and "5f1": the reader stands at different offsets modulo 4 after them
AssetUnityVersions == {<<53, 97>>, <<53, 102, 49>>}

\* the bytes cut from the end of a file
AssetCuts == {0, 1, 30}

\* a signed 32-bit and a signed 64-bit little-endian value
LE32S(n) == <<n % 256, (n \div 256) % 256, (n \div 65536) % 256, (n \div 16777216) % 256>>

LE64S(n) == LE32S(n) \o (IF n < 0 THEN <<255, 255, 255, 255>> ELSE <<0, 0, 0, 0>>)

\* the two objects written into every file
WrittenEntries ==
    <<[pathId |-> 7, bytesStart |-> 24, bytesSize |-> 8, typeId |-> 0, classId |-> 49],
      [pathId |-> 0 - 2, bytesStart |-> 32, bytesSize |-> 12, typeId |-> 0, classId |-> 49]>>

WrittenDataOffset == 64

\* the schema written when type trees are enabled: one node, typed and named
\* by the string at offset 0 of its string buffer, "Base"
WrittenBlob(version) ==
    LE32(1) \o LE32(5)
        \o LE16(1) \o <<0, 0>> \o LE32(0) \o LE32(0) \o LE32S(0 - 1) \o LE32(0) \o LE32(0)
        \o (IF version >= 19 THEN LE32(0) ELSE <<>>)
        \o <<66, 97, 115, 101, 0>>

WrittenTree(version) ==
    <<[version |-> 1, level |-> 0, typeFlags |-> 0, byteSize |-> 0 - 1, index |-> 0,
       metaFlag |-> 0, typeStr |-> "Base", nameStr |-> "Base"]>>

\* the one type of the file
TypeImage(c) ==
    LE32(49)
        \o (IF c.version >= 16 THEN <<0>> ELSE <<>>)
        \o (IF c.version >= 17 THEN LE16(0) ELSE <<>>)
        \o (IF c.version >= 13 THEN Zeros(16) ELSE <<>>)
        \o (IF c.typeTree THEN WrittenBlob(c.version) ELSE <<>>)
        \o (IF c.typeTree /\ c.version >= 21 THEN LE32(0) ELSE <<>>)

\* one object directory entry, written at offset pos of the file
EntryImage(c, pos, e) ==
    (IF c.padded THEN Zeros((4 - (pos % 4)) % 4) ELSE <<>>)
        \o (IF c.wide THEN LE64S(e.pathId) ELSE LE32S(e.pathId))
        \o (IF c.version >= 22 THEN LE32(e.bytesStart) \o Zeros(4) ELSE LE32(e.bytesStart))
        \o LE32(e.bytesSize) \o LE32(e.typeId)
        \o (IF c.version < 16 THEN LE16(e.classId) ELSE <<>>)
        \o (IF c.version < 17 THEN <<0, 0>> ELSE <<>>)
        \o (IF c.version \in {15, 16} THEN <<0>> ELSE <<>>)

RECURSIVE EntriesImage(_, _, _)
EntriesImage(c, pos, entries) ==
    IF entries = <<>> THEN <<>>
    ELSE LET after(first) == first \o EntriesImage(c, pos + Len(first), Tail(entries))
         IN  after(EntryImage(c, pos, Head(entries)))

\* the metadata up to the object count, from the engine version on
MetadataHead(c) ==
    (IF c.version >= 7 THEN c.unityVersion \o <<0>> ELSE <<>>)
        \o (IF c.version >= 8 THEN LE32(5) ELSE <<>>)
        \o (IF c.version >= 13 THEN <<IF c.typeTree THEN 1 ELSE 0>> ELSE <<>>)
        \o LE32(1) \o TypeImage(c)
        \o (IF c.version >= 7 /\ c.version < 14 THEN LE32(c.bigId) ELSE <<>>)
        \o LE32(Len(WrittenEntries))

\* the file up to the metadata: the header, and before version 9 the object data
\* and the endianness byte that the metadata follows
FileHead(c, metadataSize, fileSize) ==
    BE32(metadataSize) \o BE32(fileSize) \o BE32(c.version) \o BE32(WrittenDataOffset)
        \o (IF c.version >= 9 THEN <<0, 0, 0, 0>> ELSE Zeros(4) \o <<0>>)
        \o (IF c.version >= 22
            THEN BE32(metadataSize) \o BE64(fileSize) \o BE64(WrittenDataOffset) \o Zeros(8)
            ELSE <<>>)

FileHeadLen(c) == IF c.version >= 22 THEN 48 ELSE IF c.version >= 9 THEN 20 ELSE 21

\* the whole file
AssetImage(c) ==
    LET whole(head, entries) ==
            FileHead(c, 1 + Len(head) + Len(entries),
                     FileHeadLen(c) + Len(head) + Len(entries))
                \o head \o entries
        withHead(head) ==
            whole(head, EntriesImage(c, FileHeadLen(c) + Len(head), WrittenEntries))
    IN  withHead(MetadataHead(c))

\* what a file can be written with
AssetConfigs ==
    {c \in [version : AssetVersions, unityVersion : AssetUnityVersions,
            typeTree : BOOLEAN, bigId : {0, 1}, wide : BOOLEAN, padded : BOOLEAN,
            cut : AssetCuts] :
        /\ c.typeTree => c.version >= 13
        /\ c.bigId = 1 => (c.version >= 7 /\ c.version < 14)
        /\ c.version < 7 => c.unityVersion = <<53, 97>>}

InitAsset ==
    /\ \E c \in AssetConfigs :
          LET written(image) ==
                  asFile = [config |-> c, image |-> Take(image, Len(image) - c.cut)]
          IN  written(AssetImage(c))
    /\ asAsset = [made |-> FALSE, asset |-> <<>>]
    /\ LoadIdle
    /\ ftData = <<>>
    /\ ftResult = "pending"
    /\ ttFile = [buf |-> <<>>, le |-> TRUE, template |-> 0]
    /\ ttObjs = <<>>
    /\ ttInitial = [file |-> ttFile, objs |-> ttObjs]
    /\ ttCalls = <<>>
    /\ ttFirst = <<>>
    /\ ttLast = <<>>

\* new Asset(data)
NewAsset ==
    /\ ~asAsset.made
    /\ asAsset' = [made |-> TRUE, asset |-> Asset(asFile.image)]
    /\ UNCHANGED <<asFile, ftVars, ttVars, abVars>>

NextAsset == NewAsset

SpecAsset == InitAsset /\ [][NextAsset]_vars

(***************************************************************************)
(* C12                                                                     *)
(***************************************************************************)
\* big-id mode: version >= 14, or the flag set for 7 <= version < 14
BigIdActive(c) == c.version >= 14 \/ c.bigId = 1

\* the path ids as the claim has them read: 64 bits in big-id mode, 32 bits
\* otherwise, and padding before the 64 bits when the mode comes from the flag
ClaimedLayout(c) ==
    /\ c.wide = BigIdActive(c)
    /\ c.padded = (c.bigId = 1)

\* the same widths, with the padding when the mode comes from the version
VersionPaddedLayout(c) ==
    /\ c.wide = BigIdActive(c)
    /\ c.padded = (c.version >= 14)

\* the constructor returned, and its object directory is what the file was
\* written with
ParsedAsWritten ==
    /\ asAsset.made
    /\ ~asAsset.asset.err
    /\ Len(asAsset.asset.objectInfos) = Len(WrittenEntries)
    /\ \A k \in 1..Len(WrittenEntries) :
          /\ asAsset.asset.objectInfos[k].pathId = WrittenEntries[k].pathId
          /\ asAsset.asset.objectInfos[k].bytesStart =
                 WrittenEntries[k].bytesStart + WrittenDataOffset
          /\ asAsset.asset.objectInfos[k].bytesSize = WrittenEntries[k].bytesSize
          /\ asAsset.asset.objectInfos[k].typeId = WrittenEntries[k].typeId
          /\ asAsset.asset.objectInfos[k].classId = WrittenEntries[k].classId

\* the file is whole and its constructor has run
WholeFileParsed == asAsset.made /\ asFile.config.cut = 0

\* C12 (as claimed): a file whose path ids are 64 bits wide in big-id mode and 32
\* bits wide otherwise, with padding to a multiple of 4 before each 64-bit path id
\* exactly when big-id mode comes from the flag, is parsed into the entries written.
C12_PathIdAlignedForFlag ==
    (WholeFileParsed /\ ClaimedLayout(asFile.config)) => ParsedAsWritten

\* C12 (amended): the same widths, with the padding exactly when big-id mode
\* comes from the version (version >= 14); and a whole file whose bytes differ
\* from that layout's is not parsed into the entries written.
C12_PathIdAlignedForVersion ==
    /\ (WholeFileParsed /\ VersionPaddedLayout(asFile.config)) => ParsedAsWritten
    /\ (WholeFileParsed /\ ParsedAsWritten) =>
          \E c \in AssetConfigs :
              /\ VersionPaddedLayout(c)
              /\ asFile.image = AssetImage(c)

\* a version 15 file, where the second entry starts off a multiple of 4 and is
\* padded, and a version 9 file with the flag set, whose 64-bit path ids start
\* off a multiple of 4 and are not padded: each parsed into the entries written
C12_Witness ==
    /\ ParsedAsWritten
    /\ asFile.config.cut = 0
    /\ VersionPaddedLayout(asFile.config)
    /\ asFile.config.wide
    /\ \/ /\ asFile.config.version = 15
          /\ asFile.config.padded
          /\ asFile.image # AssetImage([asFile.config EXCEPT !.padded = FALSE])
       \/ /\ asFile.config.version = 9
          /\ asFile.config.bigId = 1
          /\ asFile.image # AssetImage([asFile.config EXCEPT !.padded = TRUE])

(***************************************************************************)
(* C13                                                                     *)
(***************************************************************************)
\* every type and every object directory entry of the parsed file has no schema
SchemasEmpty ==
    /\ \A k \in 1..Len(asAsset.asset.types) : asAsset.asset.types[k].tree = <<>>
    /\ \A k \in 1..Len(asAsset.asset.objectInfos) :
          asAsset.asset.objectInfos[k].tree = <<>>

\* C13: whatever the bytes of the file, whole or cut short, once the constructor
\* has run: enableTypeTree is set only with a header version >= 13; readType did
\* not fail with 'Unsupported asset version'; and with a header version < 13 no
\* type and no object directory entry has a schema.
C13_TypeTreeFlagFromVersion13 ==
    asAsset.made =>
        /\ asAsset.asset.enableTypeTree => asAsset.asset.header.version >= 13
        /\ ~asAsset.asset.unsupported
        /\ asAsset.asset.header.version < 13 => SchemasEmpty

\* a whole version 11 file, the version whose schemas readType does not support,
\* parsed with its type and its two objects, none with a schema
C13_Witness ==
    /\ asAsset.made
    /\ asFile.config.cut = 0
    /\ ~asAsset.asset.err
    /\ asAsset.asset.header.version = 11
    /\ ~asAsset.asset.enableTypeTree
    /\ Len(asAsset.asset.types) = 1
    /\ Len(asAsset.asset.objectInfos) = Len(WrittenEntries)
    /\ SchemasEmpty

====
